---- MODULE Spec2Model ----
(***************************************************************************)
(* A model of the EventApp core: the proof-of-work search (crypto/pow.ts), *)
(* the key management service (keyManagement.ts, storeKey.ts), the form    *)
(* validation and the package builder (utils/event-packer.ts) and the     *)
(* archive exporter (utils/zip-exporter.ts).  Each part has its own        *)
(* specification over the variables it owns; the other variables rest.    *)
(***************************************************************************)
EXTENDS Integers, Sequences, FiniteSets, TLC

VARIABLES
    \* proof of work (crypto/pow.ts)
    challenge,      \* the PowChallenge handed to solvePow
    hashTable,      \* sha256 of `${prefix}:${n}` for the nonces the search can reach
    nonce,          \* solvePow's local counter
    powPc,          \* where solvePow is: "idle", "loop", "returned"
    powResult,      \* the nonce solvePow returned, -1 before it returns
    \* key management (services/keyManagement)
    keys,           \* the rows of the "keys" object store
    everStored,     \* every key pair that was ever written to the store
    nextKey,        \* the number of key pairs generated so far
    initialKeys,    \* the rows of the store when the session began
    kmPc,           \* where each KeyManagement call is
    kmExists,       \* each call's keyPairExists
    kmLocal,        \* the pair each call generated in storeKeyPair, NoPair if none
    kmInserted,     \* whether each call's storage.insert wrote a row
    kmResult,       \* what each call returned, NoPair before it returns
    kmSeenDone,     \* the calls that had returned when each call began
    \* form validation (utils/event-packer.ts)
    vLabels,        \* the labels argument of validateFormData
    vFormData,      \* the formData argument: a value per key, Undefined if absent
    vResult,        \* what validateFormData returned, NoResult before the call
    \* package builder and archive exporter (event-packer.ts, zip-exporter.ts)
    bFormData,      \* the formData argument of createEventPackage
    bLabels,        \* its labels argument
    bFile,          \* its mediaFile argument, NoFile for null
    bOptions,       \* its options argument
    now,            \* the wall clock (new Date())
    uuids,          \* the number of ids uuidv4 has handed out
    built,          \* the outcome of each createEventPackage call, in order
    exported,       \* the outcome of the last exportEventPackageAsZip call
    \* admission flow (hooks/useProofOfWork.ts)
    powStatus,      \* the hook's powStatus state
    statusLog,      \* the arguments of the setPowStatus calls so far, in order
    mounted,        \* whether the component that owns the hook is mounted
    mainTask,       \* what the thread that handles user events is running
    submitted,      \* the nonce handed to submitPowSolution, -1 before the call
    uiPending,      \* user-interaction events waiting to be handled
    uiHandled,      \* user-interaction events handled so far
    \* label cache (labels/label-manager.ts, hooks/useLabelManagement.ts)
    storedLabels,   \* the localStorage item "event-app-labels"
    cacheAge,       \* days since that item was written (the code records no time)
    relayLabels,    \* the labels the relay serves
    labPc,          \* where each run of the hook's init is
    labSeenAge,     \* the age of the item each run found, -1 when it found none
    labFetched,     \* whether each run's initializeLabels called fetchLabels
    labResult,      \* what initializeLabels returned to each run
    hookLabels,     \* the hook's labels state
    labelStatus,    \* the hook's labelStatus state
    \* event form (components/EventForm.tsx)
    fLabels,        \* the form's labels prop
    fFormData,      \* its formData state: a value per key, Undefined if absent
    fMediaFile,     \* its mediaFile state, NoFile for null
    fErrors,        \* its errors state
    handoff,        \* the last archive uploaded or downloaded, NoHandoff if none
    \* key hook (hooks/useKeyInitialization.ts)
    keyPair,        \* its keyPair state, NoPair for null
    keyError,       \* whether its error state is set
    keyHandled      \* per KeyManagement call: the hook has run past its await

powVars == <<challenge, hashTable, nonce, powPc, powResult>>
keyVars == <<keys, everStored, nextKey, initialKeys, kmPc, kmExists, kmLocal,
             kmInserted, kmResult, kmSeenDone>>

valVars == <<vLabels, vFormData, vResult>>
pkgVars == <<bFormData, bLabels, bFile, bOptions, now, uuids, built, exported>>

flowVars == <<powStatus, statusLog, mounted, mainTask, submitted, uiPending, uiHandled>>

labVars == <<storedLabels, cacheAge, relayLabels, labPc, labSeenAge, labFetched,
             labResult, hookLabels, labelStatus>>

formVars == <<fLabels, fFormData, fMediaFile, fErrors, handoff>>

appVars == <<keyPair, keyError, keyHandled>>

vars == <<powVars, keyVars, valVars, pkgVars, flowVars, labVars, formVars, appVars>>

\* what the actions of one part leave alone
notPowVars == <<keyVars, valVars, pkgVars, flowVars, labVars, formVars, appVars>>
notKeyVars == <<powVars, valVars, pkgVars, flowVars, labVars, formVars, appVars>>
notValVars == <<powVars, keyVars, pkgVars, flowVars, labVars, formVars, appVars>>
notPkgVars == <<powVars, keyVars, valVars, flowVars, labVars, formVars, appVars>>
notFlowVars == <<keyVars, valVars, pkgVars, labVars, formVars, appVars>>
notFormVars == <<powVars, keyVars, valVars, pkgVars, flowVars, labVars, appVars>>
notAppVars == <<powVars, keyVars, valVars, pkgVars, flowVars, labVars, formVars>>
notLabVars == <<powVars, keyVars, valVars, pkgVars, flowVars, formVars, appVars>>

(***************************************************************************)
(* Proof of work                                                           *)
(***************************************************************************)

\* Largest counter value the model lets the search reach.
MaxNonce == 2
\* Number of hex characters of a digest in the model (64 for SHA-256).
HashLen == 2
\* Largest difficulty a challenge carries in the model.
MaxDifficulty == 2

HexDigits == {"0", "f"}
Prefixes == {"eventapp", "test"}

Digests == [1..HashLen -> HexDigits]

PowChallenge == [prefix : Prefixes, difficulty : 0..MaxDifficulty]

\* "0".repeat(n)
Repeat0(n) == [i \in 1..n |-> "0"]

\* String.prototype.startsWith
StartsWith(s, t) ==
    /\ Len(t) <= Len(s)
    /\ \A i \in 1..Len(t) : s[i] = t[i]

\* sha256(`${prefix}:${n}`) for the prefix of the challenge being solved
sha256(n) == hashTable[n]

PowRest ==
    /\ challenge = [prefix |-> "eventapp", difficulty |-> 0]
    /\ hashTable = [n \in 0..MaxNonce |-> Repeat0(HashLen)]
    /\ nonce = 0
    /\ powPc = "idle"
    /\ powResult = -1

PowInit ==
    /\ challenge \in PowChallenge
    /\ hashTable \in [0..MaxNonce -> Digests]
    /\ nonce = 0
    /\ powPc = "idle"
    /\ powResult = -1

\* solvePow, lines 25-28: let nonce = 0; the target is computed from the challenge
SolveEnter ==
    /\ powPc = "idle"
    /\ nonce' = 0
    /\ powPc' = "loop"
    /\ UNCHANGED <<challenge, hashTable, powResult>>
    /\ UNCHANGED notPowVars

target == Repeat0(challenge.difficulty)

\* the test of one iteration of the while (true) loop
SolveHitShort(n) == StartsWith(sha256(n), Repeat0(challenge.difficulty - 1))
SolveHit(n) == StartsWith(sha256(n), target)

\* one iteration that finds the target prefix: return nonce
SolveReturn ==
    /\ powPc = "loop"
    /\ SolveHit(nonce)
    /\ powResult' = nonce
    /\ powPc' = "returned"
    /\ UNCHANGED <<challenge, hashTable, nonce>>
    /\ UNCHANGED notPowVars

\* an iteration that misses and steps over the next counter value
SolveNextSkips ==
    /\ powPc = "loop"
    /\ ~SolveHit(nonce)
    /\ nonce + 2 <= MaxNonce
    /\ nonce' = nonce + 2
    /\ UNCHANGED <<challenge, hashTable, powPc, powResult>>
    /\ UNCHANGED notPowVars

\* one iteration that misses: nonce++ (the model follows the counter up to MaxNonce)
SolveNext ==
    /\ powPc = "loop"
    /\ ~SolveHit(nonce)
    /\ nonce < MaxNonce
    /\ nonce' = nonce + 1
    /\ UNCHANGED <<challenge, hashTable, powPc, powResult>>
    /\ UNCHANGED notPowVars

PowNext == SolveEnter \/ SolveReturn \/ SolveNext

(***************************************************************************)
(* Admission flow                                                          *)
(***************************************************************************)

\* Number of user-interaction events of one session in the model.
MaxEvents == 2

\* the texts setPowStatus is given, without their parameters
Statuses ==
    {"Initializing", "Fetching challenge", "Solving", "Submitting solution",
     "Completed successfully", "Failed", "Error"}

\* no flow has begun
FlowRest ==
    /\ powStatus = "Initializing"
    /\ statusLog = <<>>
    /\ mounted = FALSE
    /\ mainTask = "none"
    /\ submitted = -1
    /\ uiPending = 0
    /\ uiHandled = 0

\* the hook before its effect ran: solvePow is not called yet and the digests
\* are whatever sha256 gives
FlowInit ==
    /\ challenge = [prefix |-> "eventapp", difficulty |-> 0]
    /\ hashTable \in [0..MaxNonce -> Digests]
    /\ nonce = 0
    /\ powPc = "uncalled"
    /\ powResult = -1
    /\ powStatus = "Initializing"
    /\ statusLog = <<>>
    /\ mounted = TRUE
    /\ mainTask = "none"
    /\ submitted = -1
    /\ uiPending = 0
    /\ uiHandled = 0

\* setPowStatus
setPowStatus(log, status) == Append(log, status)

\* the effect: runPow up to its first await (fetchPowChallenge is pending)
RunPow ==
    /\ mounted
    /\ mainTask = "none"
    /\ powStatus = "Initializing"
    /\ powStatus' = "Fetching challenge"
    /\ statusLog' = setPowStatus(statusLog, "Fetching challenge")
    /\ UNCHANGED <<mounted, mainTask, submitted, uiPending, uiHandled>>
    /\ UNCHANGED powVars
    /\ UNCHANGED notFlowVars

\* fetchPowChallenge resolves and runPow goes on in the thread that handles user
\* events: setPowStatus("Solving"), then the call of solvePow
ChallengeReceived ==
    /\ mainTask = "none"
    /\ powStatus = "Fetching challenge"
    /\ \E c \in PowChallenge : challenge' = c
    /\ powStatus' = "Solving"
    /\ statusLog' = setPowStatus(statusLog, "Solving")
    /\ powPc' = "idle"
    /\ mainTask' = "runPow"
    /\ UNCHANGED <<hashTable, nonce, powResult>>
    /\ UNCHANGED <<mounted, submitted, uiPending, uiHandled>>
    /\ UNCHANGED notFlowVars

\* solvePow returned: setPowStatus("Submitting"), submitPowSolution(nonce) is
\* called and runPow awaits it
SubmitSolutionEarly ==
    /\ mainTask = "runPow"
    /\ powStatus = "Solving"
    /\ powPc \in {"loop", "returned"}
    /\ powStatus' = "Submitting solution"
    /\ statusLog' = setPowStatus(statusLog, "Submitting solution")
    /\ submitted' = nonce
    /\ mainTask' = "none"
    /\ UNCHANGED <<mounted, uiPending, uiHandled>>
    /\ UNCHANGED powVars
    /\ UNCHANGED notFlowVars

SubmitSolution ==
    /\ mainTask = "runPow"
    /\ powStatus = "Solving"
    /\ powPc = "returned"
    /\ powStatus' = "Submitting solution"
    /\ statusLog' = setPowStatus(statusLog, "Submitting solution")
    /\ submitted' = powResult
    /\ mainTask' = "none"
    /\ UNCHANGED <<mounted, uiPending, uiHandled>>
    /\ UNCHANGED powVars
    /\ UNCHANGED notFlowVars

\* submitPowSolution resolves with the relay's answer
SolutionAnswered ==
    /\ mainTask = "none"
    /\ powStatus = "Submitting solution"
    /\ \E success \in BOOLEAN :
          /\ powStatus' = IF success THEN "Completed successfully" ELSE "Failed"
          /\ statusLog' = setPowStatus(statusLog, powStatus')
    /\ UNCHANGED <<mounted, mainTask, submitted, uiPending, uiHandled>>
    /\ UNCHANGED powVars
    /\ UNCHANGED notFlowVars

\* the user acts on the page: an event is queued for the thread that handles them
UserActs ==
    /\ uiPending + uiHandled < MaxEvents
    /\ uiPending' = uiPending + 1
    /\ UNCHANGED <<powStatus, statusLog, mounted, mainTask, submitted, uiHandled>>
    /\ UNCHANGED powVars
    /\ UNCHANGED notFlowVars

\* the thread that handles user events takes the next one when it runs nothing
HandleEvent ==
    /\ mainTask = "none"
    /\ uiPending > 0
    /\ uiPending' = uiPending - 1
    /\ uiHandled' = uiHandled + 1
    /\ UNCHANGED <<powStatus, statusLog, mounted, mainTask, submitted>>
    /\ UNCHANGED powVars
    /\ UNCHANGED notFlowVars

\* the component that owns the hook goes away; the effect returned no cleanup
Unmount ==
    /\ mounted
    /\ mainTask = "none"
    /\ mounted' = FALSE
    /\ UNCHANGED <<powStatus, statusLog, mainTask, submitted, uiPending, uiHandled>>
    /\ UNCHANGED powVars
    /\ UNCHANGED notFlowVars

FlowNext ==
    \/ RunPow \/ ChallengeReceived \/ SolveEnter \/ SolveNext \/ SolveReturn
    \/ SubmitSolution \/ SolutionAnswered \/ UserActs \/ HandleEvent \/ Unmount

(***************************************************************************)
(* Key management                                                          *)
(***************************************************************************)

\* Number of KeyManagement calls of one session (React StrictMode runs the
\* effect that calls it twice).
NumCalls == 2

Calls == 1..NumCalls

\* the fixed key id of keyManagement.ts and storeKey.ts
Kid == 1

\* a null publicKey / privateKey
NoKey == 0
NoPair == [publicKey |-> NoKey, privateKey |-> NoKey]

\* the k-th pair generateKeyPair produces; the pair of an earlier session is 0
KeyPairOf(k) == [publicKey |-> 2 * k + 1, privateKey |-> 2 * k + 2]

Row(pair) == [kid |-> Kid, pub |-> pair.publicKey, priv |-> pair.privateKey]
PairOfRow(r) == [publicKey |-> r.pub, privateKey |-> r.priv]

KeyRest ==
    /\ keys = {}
    /\ everStored = {}
    /\ nextKey = 0
    /\ initialKeys = {}
    /\ kmPc = [c \in Calls |-> "idle"]
    /\ kmExists = [c \in Calls |-> FALSE]
    /\ kmLocal = [c \in Calls |-> NoPair]
    /\ kmInserted = [c \in Calls |-> FALSE]
    /\ kmResult = [c \in Calls |-> NoPair]
    /\ kmSeenDone = [c \in Calls |-> {}]

\* a fresh store, or the store an earlier session left its pair in
KeyInit ==
    /\ keys \in {{}, {Row(KeyPairOf(0))}}
    /\ everStored = {PairOfRow(r) : r \in keys}
    /\ nextKey = 0
    /\ initialKeys = keys
    /\ kmPc = [c \in Calls |-> "idle"]
    /\ kmExists = [c \in Calls |-> FALSE]
    /\ kmLocal = [c \in Calls |-> NoPair]
    /\ kmInserted = [c \in Calls |-> FALSE]
    /\ kmResult = [c \in Calls |-> NoPair]
    /\ kmSeenDone = [c \in Calls |-> {}]

\* storage.findOne("keys", kid): the rows under that key
FindOne(kid) == {r \in keys : r.kid = kid}

\* checkKeyPairExists(): whether a pair is stored under the fixed kid
checkKeyPairExists == FindOne(Kid) # {}

\* storage.insert("keys", {value}): adds the row unless one exists under its key,
\* in which case it rejects with "Key already exists"
InsertRejects(row) == FindOne(row.kid) # {}

InsertResult(row) ==
    IF InsertRejects(row) THEN keys ELSE {r \in keys : r.kid # row.kid} \cup {row}

\* KeyManagement is called
KmCall(c) ==
    /\ kmPc[c] = "idle"
    /\ kmPc' = [kmPc EXCEPT ![c] = "check"]
    /\ kmSeenDone' = [kmSeenDone EXCEPT ![c] = {d \in Calls : kmPc[d] = "done"}]
    /\ UNCHANGED <<keys, everStored, nextKey, initialKeys, kmExists, kmLocal,
                   kmInserted, kmResult>>
    /\ UNCHANGED notKeyVars

\* const keyPairExists = await checkKeyPairExists(); if (!keyPairExists) ...
KmBranchAlways(exists) == "generate"
KmBranch(exists) == IF exists THEN "retrieve" ELSE "generate"

KmCheck(c) ==
    /\ kmPc[c] = "check"
    /\ kmExists' = [kmExists EXCEPT ![c] = checkKeyPairExists]
    /\ kmPc' = [kmPc EXCEPT ![c] = KmBranch(checkKeyPairExists)]
    /\ UNCHANGED <<keys, everStored, nextKey, initialKeys, kmLocal, kmInserted,
                   kmResult, kmSeenDone>>
    /\ UNCHANGED notKeyVars

\* storeKeyPair: const { publicKey, privateKey } = await generateKeyPair()
StoreGenerate(c) ==
    /\ kmPc[c] = "generate"
    /\ nextKey' = nextKey + 1
    /\ kmLocal' = [kmLocal EXCEPT ![c] = KeyPairOf(nextKey + 1)]
    /\ kmPc' = [kmPc EXCEPT ![c] = "insert"]
    /\ UNCHANGED <<keys, everStored, initialKeys, kmExists, kmInserted, kmResult,
                   kmSeenDone>>
    /\ UNCHANGED notKeyVars

\* generateKeyPair rejects (the runtime cannot generate): storeKeyPair and
\* KeyManagement reject with it
StoreGenerateFails(c) ==
    /\ kmPc[c] = "generate"
    /\ kmPc' = [kmPc EXCEPT ![c] = "failed"]
    /\ UNCHANGED <<keys, everStored, nextKey, initialKeys, kmExists, kmLocal,
                   kmInserted, kmResult, kmSeenDone>>
    /\ UNCHANGED notKeyVars

\* storeKeyPair writing with a put, which replaces the row under the key
StorePut(c) ==
    /\ kmPc[c] = "insert"
    /\ keys' = {r \in keys : r.kid # Kid} \cup {Row(kmLocal[c])}
    /\ everStored' = everStored \cup {kmLocal[c]}
    /\ kmInserted' = [kmInserted EXCEPT ![c] = TRUE]
    /\ kmPc' = [kmPc EXCEPT ![c] = "retrieve"]
    /\ UNCHANGED <<nextKey, initialKeys, kmExists, kmLocal, kmResult, kmSeenDone>>
    /\ UNCHANGED notKeyVars

\* storeKeyPair: await storage.insert("keys", ...), "Key already exists" ignored
StoreInsert(c) ==
    /\ kmPc[c] = "insert"
    /\ LET row == Row(kmLocal[c]) IN
        /\ keys' = InsertResult(row)
        /\ everStored' = IF InsertRejects(row) THEN everStored
                         ELSE everStored \cup {kmLocal[c]}
        /\ kmInserted' = [kmInserted EXCEPT ![c] = ~InsertRejects(row)]
    /\ kmPc' = [kmPc EXCEPT ![c] = "retrieve"]
    /\ UNCHANGED <<nextKey, initialKeys, kmExists, kmLocal, kmResult, kmSeenDone>>
    /\ UNCHANGED notKeyVars

\* storage.insert rejects for another reason (quota, permission): rethrown
StoreInsertFails(c) ==
    /\ kmPc[c] = "insert"
    /\ kmPc' = [kmPc EXCEPT ![c] = "failed"]
    /\ UNCHANGED <<keys, everStored, nextKey, initialKeys, kmExists, kmLocal,
                   kmInserted, kmResult, kmSeenDone>>
    /\ UNCHANGED notKeyVars

\* retrieveKeyPair(kid): the stored pair, or two nulls when no row is found
retrieveKeyPair(kid) ==
    IF FindOne(kid) # {} THEN PairOfRow(CHOOSE r \in FindOne(kid) : TRUE)
    ELSE NoPair

\* a KeyManagement that returns the pair storeKeyPair generated in this call,
\* when it generated one
KmReturnsLocal(c) ==
    /\ kmPc[c] = "retrieve"
    /\ kmPc' = [kmPc EXCEPT ![c] = "done"]
    /\ kmResult' = [kmResult EXCEPT ![c] = IF kmLocal[c] # NoPair THEN kmLocal[c]
                                           ELSE retrieveKeyPair(Kid)]
    /\ UNCHANGED <<keys, everStored, nextKey, initialKeys, kmExists, kmLocal,
                   kmInserted, kmSeenDone>>
    /\ UNCHANGED notKeyVars

\* const { publicKey, privateKey } = await retrieveKeyPair(1); throw if one is
\* missing, else return both
KmRetrieve(c) ==
    /\ kmPc[c] = "retrieve"
    /\ LET got == retrieveKeyPair(Kid) IN
        IF got.publicKey = NoKey \/ got.privateKey = NoKey
        THEN /\ kmPc' = [kmPc EXCEPT ![c] = "failed"]
             /\ UNCHANGED kmResult
        ELSE /\ kmPc' = [kmPc EXCEPT ![c] = "done"]
             /\ kmResult' = [kmResult EXCEPT ![c] = got]
    /\ UNCHANGED <<keys, everStored, nextKey, initialKeys, kmExists, kmLocal,
                   kmInserted, kmSeenDone>>
    /\ UNCHANGED notKeyVars

KeyNext ==
    \E c \in Calls :
        \/ KmCall(c)
        \/ KmCheck(c)
        \/ StoreGenerate(c)
        \/ StoreGenerateFails(c)
        \/ StoreInsert(c)
        \/ StoreInsertFails(c)
        \/ KmRetrieve(c)

(***************************************************************************)
(* Field values and labels                                                 *)
(***************************************************************************)

\* Largest number a field holds in the model.
MaxNum == 2
\* Longest string a field holds in the model.
MaxStrLen == 2

LabelIds == {"1", "2"}

\* A runtime value: its typeof tag and the payload of that type.  A string is
\* the sequence of its characters; nan marks the number NaN.
Value(t, n, str, b) == [t |-> t, n |-> n, s |-> str, b |-> b, nan |-> FALSE]
Undefined == Value("undefined", 0, <<>>, FALSE)
Null == Value("null", 0, <<>>, FALSE)
Num(n) == Value("number", n, <<>>, FALSE)
Str(str) == Value("string", 0, str, FALSE)
Bool(b) == Value("boolean", 0, <<>>, b)
\* the number NaN: typeof NaN is "number", and every comparison with it is false
NaN == [Num(0) EXCEPT !.nan = TRUE]
\* a value that is no FieldValue (an object)
Obj == Value("object", 0, <<>>, FALSE)

Strings == UNION {[1..k -> {"a"}] : k \in 0..MaxStrLen}
Numbers == 0..MaxNum

FieldValues ==
    {Null, NaN} \cup {Num(n) : n \in Numbers} \cup {Str(x) : x \in Strings}
                \cup {Bool(b) : b \in BOOLEAN}

\* what formData[labelId] can evaluate to
FormValues == FieldValues \cup {Undefined}

LabelTypes == {"text", "number", "enum", "boolean"}

\* A Label; constraints and each of its members are optional.
Label(id, type, required, c) ==
    [labelId |-> id, type |-> type, required |-> required, constraints |-> c]

Constraints(hasMin, min, hasMax, max, hasMaxLength, maxLength) ==
    [present |-> TRUE, hasMin |-> hasMin, min |-> min, hasMax |-> hasMax,
     max |-> max, hasMaxLength |-> hasMaxLength, maxLength |-> maxLength]
NoConstraints ==
    [present |-> FALSE, hasMin |-> FALSE, min |-> 0, hasMax |-> FALSE,
     max |-> 0, hasMaxLength |-> FALSE, maxLength |-> 0]

\* the bounds a schema puts on a number or on a text in the model
Limits == 1..(MaxNum - 1)
LengthLimits == 1..(MaxStrLen - 1)

NumberConstraints ==
    {NoConstraints}
    \cup {Constraints(FALSE, 0, FALSE, 0, FALSE, 0)}
    \cup {Constraints(TRUE, lo, FALSE, 0, FALSE, 0) : lo \in Limits}
    \cup {Constraints(FALSE, 0, TRUE, hi, FALSE, 0) : hi \in Limits}
    \cup {Constraints(TRUE, lo, TRUE, hi, FALSE, 0) : lo \in Limits, hi \in Limits}

TextConstraints ==
    {NoConstraints}
    \cup {Constraints(FALSE, 0, FALSE, 0, FALSE, 0)}
    \cup {Constraints(FALSE, 0, FALSE, 0, TRUE, len) : len \in LengthLimits}

ConstraintsOf(type) ==
    CASE type = "number" -> NumberConstraints
      [] type = "text" -> TextConstraints
      [] OTHER -> {NoConstraints}

Labels ==
    UNION {{Label(id, type, required, c) : c \in ConstraintsOf(type)} :
              id \in LabelIds, type \in LabelTypes, required \in BOOLEAN}

\* label lists with one label per labelId at most
LabelLists ==
    {ls \in UNION {[1..k -> Labels] : k \in 0..Cardinality(LabelIds)} :
        \A i, j \in DOMAIN ls : i # j => ls[i].labelId # ls[j].labelId}

(***************************************************************************)
(* Validation                                                              *)
(***************************************************************************)

\* an error message: the template and what is interpolated into it
Message(kind, id, n) == [kind |-> kind, id |-> id, n |-> n]
\* validateField returning undefined
NoMessage == Message("undefined", "", 0)

NoResult == [called |-> FALSE, isValid |-> FALSE, errors |-> <<>>]

\* validateNumberField
validateNumberFieldStrict(value, label) ==
    IF value.t # "number" THEN Message("Must be a number", "", 0)
    ELSE IF ~label.constraints.present THEN NoMessage
    ELSE IF label.constraints.hasMin /\ ~value.nan /\ value.n <= label.constraints.min
         THEN Message("Must be at least", "", label.constraints.min)
    ELSE IF label.constraints.hasMax /\ ~value.nan /\ value.n >= label.constraints.max
         THEN Message("Must be at most", "", label.constraints.max)
    ELSE NoMessage

\* a number check that never looks at max
validateNumberFieldNoMax(value, label) ==
    IF value.t # "number" THEN Message("Must be a number", "", 0)
    ELSE IF ~label.constraints.present THEN NoMessage
    ELSE IF label.constraints.hasMin /\ ~value.nan /\ value.n < label.constraints.min
         THEN Message("Must be at least", "", label.constraints.min)
    ELSE NoMessage

validateNumberField(value, label) ==
    IF value.t # "number" THEN Message("Must be a number", "", 0)
    ELSE IF ~label.constraints.present THEN NoMessage
    ELSE IF label.constraints.hasMin /\ ~value.nan /\ value.n < label.constraints.min
         THEN Message("Must be at least", "", label.constraints.min)
    ELSE IF label.constraints.hasMax /\ ~value.nan /\ value.n > label.constraints.max
         THEN Message("Must be at most", "", label.constraints.max)
    ELSE NoMessage

\* validateTextField
\* a text check that rejects a text of exactly maxLength characters
validateTextFieldStrict(value, label) ==
    IF value.t # "string" THEN Message("Must be text", "", 0)
    ELSE IF /\ label.constraints.present
            /\ label.constraints.hasMaxLength
            /\ Len(value.s) >= label.constraints.maxLength
         THEN Message("Must be at most characters", "", label.constraints.maxLength)
    ELSE NoMessage

validateTextField(value, label) ==
    IF value.t # "string" THEN Message("Must be text", "", 0)
    ELSE IF /\ label.constraints.present
            /\ label.constraints.hasMaxLength
            /\ Len(value.s) > label.constraints.maxLength
         THEN Message("Must be at most characters", "", label.constraints.maxLength)
    ELSE NoMessage

\* an emptiness test that lets the empty string through
IsEmptyValueNotString(value) == value.t \in {"null", "undefined"}
\* value === null || value === undefined || value === ""
IsEmptyValue(value) == value.t \in {"null", "undefined"} \/ value = Str(<<>>)

\* validateField
validateField(value, label) ==
    IF label.required /\ IsEmptyValue(value)
    THEN Message("is required", label.labelId, 0)
    ELSE IF value.t \in {"null", "undefined"} THEN NoMessage
    ELSE CASE label.type = "number" -> validateNumberField(value, label)
           [] label.type = "text" -> validateTextField(value, label)
           [] OTHER -> NoMessage

\* if (error): a message is truthy unless it is undefined or the empty string
Truthy(msg) == msg.kind \notin {"undefined", ""}

\* an assignment that forgets the errors recorded before it
AssignFresh(errors, id, msg) == [k \in {id} |-> msg]
\* errors[label.labelId] = error
Assign(errors, id, msg) ==
    [k \in DOMAIN errors \cup {id} |-> IF k = id THEN msg ELSE errors[k]]

\* labels.forEach(...) from the i-th label on
RECURSIVE ValidateFrom(_, _, _, _)
ValidateFrom(i, formData, labels, errors) ==
    IF i > Len(labels) THEN errors
    ELSE LET label == labels[i]
             error == validateField(formData[label.labelId], label)
         IN ValidateFrom(i + 1, formData, labels,
                         IF Truthy(error) THEN Assign(errors, label.labelId, error)
                         ELSE errors)

\* validateFormData
validateFormData(formData, labels) ==
    LET errors == ValidateFrom(1, formData, labels, <<>>) IN
    [called |-> TRUE, isValid |-> DOMAIN errors = {}, errors |-> errors]

ValRest ==
    /\ vLabels = <<>>
    /\ vFormData = [id \in LabelIds |-> Undefined]
    /\ vResult = NoResult

ValInit ==
    /\ vLabels \in LabelLists
    /\ vFormData \in [LabelIds -> FormValues]
    /\ vResult = NoResult

Validate ==
    /\ ~vResult.called
    /\ vResult' = validateFormData(vFormData, vLabels)
    /\ UNCHANGED <<vLabels, vFormData>>
    /\ UNCHANGED notValVars

ValNext == Validate

(***************************************************************************)
(* Strings, JSON and base64 as the builder and the exporter use them       *)
(***************************************************************************)

\* Longest media file in the model, in bytes.
MaxFileLen == 2
\* Last instant of the wall clock in the model.
MaxClock == 1
\* Number of createEventPackage calls the model follows.
MaxBuilds == 2

\* new Date(t).toISOString(), as the characters of the string
ToISOString(t) == <<"T", ToString(t)>>

\* A MIME type is the list of its parts between "/"; "" is one empty part.
Mime(main, sub) == <<main, sub>>
EmptyMime == <<"">>

\* The characters of base64 are their 6-bit values; the padding "=" is PadChar
\* and BadChar is a character outside the alphabet.
PadChar == 64
BadChar == 99

\* btoa over a byte sequence, as FileReader.readAsDataURL encodes
RECURSIVE Base64Encode(_)
Base64Encode(bytes) ==
    IF Len(bytes) = 0 THEN <<>>
    ELSE IF Len(bytes) = 1 THEN
        <<bytes[1] \div 4, (bytes[1] % 4) * 16, PadChar, PadChar>>
    ELSE IF Len(bytes) = 2 THEN
        <<bytes[1] \div 4, (bytes[1] % 4) * 16 + bytes[2] \div 16,
          (bytes[2] % 16) * 4, PadChar>>
    ELSE
        <<bytes[1] \div 4, (bytes[1] % 4) * 16 + bytes[2] \div 16,
          (bytes[2] % 16) * 4 + bytes[3] \div 64, bytes[3] % 64>>
        \o Base64Encode(SubSeq(bytes, 4, Len(bytes)))

\* the characters left when the trailing padding of a full group is removed
StripPadding(chars) ==
    IF Len(chars) % 4 # 0 \/ Len(chars) = 0 THEN chars
    ELSE IF chars[Len(chars)] # PadChar THEN chars
    ELSE IF chars[Len(chars) - 1] # PadChar THEN SubSeq(chars, 1, Len(chars) - 1)
    ELSE SubSeq(chars, 1, Len(chars) - 2)

\* the bytes of groups of four characters; a last group of two or three
\* characters gives one or two bytes
RECURSIVE DecodeGroups(_)
DecodeGroups(chars) ==
    IF Len(chars) <= 1 THEN <<>>
    ELSE IF Len(chars) = 2 THEN
        <<chars[1] * 4 + chars[2] \div 16>>
    ELSE IF Len(chars) = 3 THEN
        <<chars[1] * 4 + chars[2] \div 16, (chars[2] % 16) * 16 + chars[3] \div 4>>
    ELSE
        <<chars[1] * 4 + chars[2] \div 16, (chars[2] % 16) * 16 + chars[3] \div 4,
          (chars[3] % 4) * 64 + chars[4]>>
        \o DecodeGroups(SubSeq(chars, 5, Len(chars)))

\* atob: throws on a character outside the alphabet, on padding that is not at
\* the end of a full group and on a length of 1 modulo 4
AtobThrows(chars) ==
    LET body == StripPadding(chars) IN
    \/ \E i \in DOMAIN body : body[i] \notin 0..63
    \/ Len(body) % 4 = 1

Atob(chars) == DecodeGroups(StripPadding(chars))

\* A string holding media data: an optional "data:<type>" head, an optional
\* ";base64," marker and the characters after it.
DataString(scheme, type, marker, body) ==
    [scheme |-> scheme, type |-> type, marker |-> marker, body |-> body]

\* FileReader.readAsDataURL's result for a file
ReadAsDataURL(file) ==
    DataString("data:",
               IF file.type = EmptyMime THEN Mime("application", "octet-stream")
               ELSE file.type,
               ";base64,", Base64Encode(file.bytes))

\* JSON.stringify of a field value: null, true, false, a number or a string;
\* NaN, which JSON cannot write, becomes null
JsonValue(kind, n, str) == [json |-> kind, n |-> n, s |-> str]
JsonLossy(v) ==
    CASE v.t = "number" /\ ~v.nan -> JsonValue("number", v.n, <<>>)
      [] v.t = "string" -> JsonValue("string", 0, v.s)
      [] v.t = "boolean" -> JsonValue("true", 0, <<>>)
      [] OTHER -> JsonValue("null", 0, <<>>)
JsonStringify(v) ==
    CASE v.t = "number" /\ ~v.nan -> JsonValue("number", v.n, <<>>)
      [] v.t = "string" -> JsonValue("string", 0, v.s)
      [] v.t = "boolean" -> JsonValue(IF v.b THEN "true" ELSE "false", 0, <<>>)
      [] OTHER -> JsonValue("null", 0, <<>>)

\* JSON.parse of such a text
JsonParse(j) ==
    CASE j.json = "number" -> Num(j.n)
      [] j.json = "string" -> Str(j.s)
      [] j.json = "true" -> Bool(TRUE)
      [] j.json = "false" -> Bool(FALSE)
      [] OTHER -> Null

(***************************************************************************)
(* Package builder                                                         *)
(***************************************************************************)

Bytes == {0, 77, 255}
FileContents == UNION {[1..k -> Bytes] : k \in 0..MaxFileLen}

\* a File: size is the number of its bytes
File(type, name, lastModified, bytes) ==
    [present |-> TRUE, type |-> type, name |-> name, size |-> Len(bytes),
     lastModified |-> lastModified, bytes |-> bytes]
\* mediaFile = null
NoFile ==
    [present |-> FALSE, type |-> EmptyMime, name |-> "", size |-> 0,
     lastModified |-> 0, bytes |-> <<>>]

\* a MIME type one of whose parts holds a comma
HasComma(type) == \E i \in DOMAIN type : type[i] = "a,b"

\* the MediaType union
MediaType ==
    {Mime("image", "jpeg"), Mime("image", "png"), Mime("image", "gif"),
     Mime("video", "mp4")}

\* the types of the files a caller hands in
MimeTypes == {Mime("image", "png"), Mime("application", "pdf"), Mime("a,b", "c"), EmptyMime}

\* the options argument; createdBy and source may each be left out
Options(hasCreatedBy, createdBy, hasSource, source) ==
    [hasCreatedBy |-> hasCreatedBy, createdBy |-> createdBy,
     hasSource |-> hasSource, source |-> source]
NoOptions == Options(FALSE, "", FALSE, "")

EventAnnotation(labelId, value, timestamp) ==
    [labelId |-> labelId, value |-> value, timestamp |-> timestamp]

EventMedia(type, data, name, size, lastModified) ==
    [type |-> type, data |-> data, name |-> name, size |-> size,
     lastModified |-> lastModified]
\* media: undefined
NoMedia == EventMedia(EmptyMime, DataString("", EmptyMime, "", <<>>), "", 0, 0)

EventPackage(id, annotations, hasMedia, media, createdAt, options) ==
    [id |-> id, version |-> "1.0.0", annotations |-> annotations,
     hasMedia |-> hasMedia, media |-> media,
     metadata |-> [createdAt |-> createdAt,
                   hasCreatedBy |-> options.hasCreatedBy,
                   createdBy |-> options.createdBy,
                   source |-> IF options.hasSource THEN options.source ELSE "web"]]

\* what a call that threw leaves in place of a package
NoPackage == EventPackage(0, <<>>, FALSE, NoMedia, <<>>, NoOptions)

\* formData[label.labelId] ?? null
ValueOrNull(formData, label) ==
    IF formData[label.labelId].t \in {"undefined", "null"} THEN Null
    ELSE formData[label.labelId]

\* the type test of the annotation map: a non-null value that is no string,
\* number or boolean throws
InvalidValueTypeNoBoolean(value, label) ==
    /\ value # Null
    /\ value.t # "string"
    /\ value.t # "number"
InvalidValueType(value, label) ==
    /\ value # Null
    /\ value.t # "string"
    /\ value.t # "number"
    /\ value.t # "boolean"

\* a map in which every annotation reads an instant of its own
LabelAnnotationsOwnInstant(formData, labels, stamp) ==
    [i \in 1..Len(labels) |->
        EventAnnotation(labels[i].labelId, ValueOrNull(formData, labels[i]),
                        ToISOString(i))]

\* labels.map(...) followed by the push of the createdAt annotation
LabelAnnotations(formData, labels, stamp) ==
    [i \in 1..Len(labels) |->
        EventAnnotation(labels[i].labelId, ValueOrNull(formData, labels[i]), stamp)]

AnnotationsNoExtra(formData, labels, stamp) ==
    LabelAnnotations(formData, labels, stamp)
Annotations(formData, labels, stamp) ==
    Append(LabelAnnotations(formData, labels, stamp),
           EventAnnotation("createdAt", Str(stamp), stamp))

\* isEventAnnotation
isEventAnnotation(a) == {"labelId", "value", "timestamp"} \subseteq DOMAIN a

\* isEventPackage
isEventPackage(pkg) ==
    /\ {"id", "version", "annotations"} \subseteq DOMAIN pkg
    /\ \A i \in DOMAIN pkg.annotations : isEventAnnotation(pkg.annotations[i])
    /\ pkg.hasMedia => {"type", "data"} \subseteq DOMAIN pkg.media

Outcome(ok, error, pkg, at) == [ok |-> ok, error |-> error, pkg |-> pkg, at |-> at]

\* a builder that goes on without the media when the file cannot be read
createEventPackageSkipsMedia(formData, labels, mediaFile, options, t, id, readFails) ==
    LET stamp == ToISOString(t)
        media == EventMedia(mediaFile.type, ReadAsDataURL(mediaFile), mediaFile.name,
                            mediaFile.size, mediaFile.lastModified)
        hasMedia == mediaFile.present /\ ~readFails
        pkg == EventPackage(id, Annotations(formData, labels, stamp), hasMedia,
                            IF hasMedia THEN media ELSE NoMedia, stamp, options)
    IN  IF \E i \in DOMAIN labels :
              InvalidValueType(ValueOrNull(formData, labels[i]), labels[i])
        THEN Outcome(FALSE, "Invalid value type", NoPackage, t)
        ELSE Outcome(TRUE, "", pkg, t)

\* createEventPackage at instant t, with id the value uuidv4 returns and
\* readFails telling whether the FileReader reports an error
createEventPackage(formData, labels, mediaFile, options, t, id, readFails) ==
    LET stamp == ToISOString(t)
        media == EventMedia(mediaFile.type, ReadAsDataURL(mediaFile), mediaFile.name,
                            mediaFile.size, mediaFile.lastModified)
        pkg == EventPackage(id, Annotations(formData, labels, stamp),
                            mediaFile.present,
                            IF mediaFile.present THEN media ELSE NoMedia,
                            stamp, options)
    IN  IF \E i \in DOMAIN labels :
              InvalidValueType(ValueOrNull(formData, labels[i]), labels[i])
        THEN Outcome(FALSE, "Invalid value type", NoPackage, t)
        ELSE IF mediaFile.present /\ readFails
        THEN Outcome(FALSE, "Failed to process media file", NoPackage, t)
        ELSE IF ~isEventPackage(pkg)
        THEN Outcome(FALSE, "Failed to create valid event package", NoPackage, t)
        ELSE Outcome(TRUE, "", pkg, t)

\* the builder's schema snapshots: one label per labelId at most
BuilderLabelLists ==
    {ls \in UNION {[1..k -> {Label(id, type, FALSE, NoConstraints) :
                                id \in LabelIds,
                                type \in {"text", "number", "boolean"}}] :
                      k \in 0..Cardinality(LabelIds)} :
        \A i, j \in DOMAIN ls : i # j => ls[i].labelId # ls[j].labelId}

\* the values a form hands to the builder, and one that is no FieldValue
BuilderValues ==
    {Undefined, Null, Str(<<"a">>), Num(1), NaN, Bool(TRUE), Bool(FALSE), Obj}

SomeOptions == {NoOptions, Options(TRUE, "alice", TRUE, "mobile")}

Files ==
    {File(type, "photo", lastModified, bytes) :
        type \in MimeTypes, lastModified \in {0, 1}, bytes \in FileContents}

(***************************************************************************)
(* Archive exporter                                                        *)
(***************************************************************************)

\* an extension taken from the main type
getFileExtensionMain(mimeType) == mimeType[1]
\* getFileExtension
getFileExtension(mimeType) == IF Len(mimeType) > 1 THEN mimeType[2] ELSE "bin"

\* the characters atob is given: split(",")[1] of a string that includes
\* "base64,", which is the part after the marker unless the type before it holds
\* a comma (then it is a piece ending in ";base64", outside the alphabet); else
\* the whole string (whose "data:" head, if any, is outside the alphabet)
Base64Data(data) ==
    IF data.marker = ";base64," /\ HasComma(data.type) THEN <<BadChar>>
    ELSE IF data.marker = ";base64," THEN data.body
    ELSE IF data.scheme = "" THEN data.body
    ELSE <<BadChar>> \o data.body

\* base64ToUint8Array
base64ToUint8ArrayThrows(data) == AtobThrows(Base64Data(data))
base64ToUint8Array(data) == Atob(Base64Data(data))

\* the entry names of an archive
EntryName(stem, extension) == <<stem, extension>>
MetadataEntry == EntryName("metadata", "json")
AnnotationsEntry == EntryName("annotations", "json")
MediaEntry(media) == EntryName("media", getFileExtension(media.type))
MediaMetadataEntry == EntryName("media_metadata", "json")

ExportOptions == [includeMedia : BOOLEAN, includeMetadata : BOOLEAN]

\* JSON.stringify(eventPackage.annotations, null, 2)
AnnotationsJson(annotations) ==
    [i \in DOMAIN annotations |->
        [labelId |-> annotations[i].labelId,
         value |-> JsonStringify(annotations[i].value),
         timestamp |-> annotations[i].timestamp]]

\* JSON.parse of annotations.json
ParseAnnotations(json) ==
    [i \in DOMAIN json |->
        EventAnnotation(json[i].labelId, JsonParse(json[i].value), json[i].timestamp)]

\* a metadata object whose hasMedia is always false
MetadataJsonFlagOff(pkg) ==
    [id |-> pkg.id, version |-> pkg.version, createdAt |-> pkg.metadata.createdAt,
     hasCreatedBy |-> pkg.metadata.hasCreatedBy, createdBy |-> pkg.metadata.createdBy,
     source |-> pkg.metadata.source, annotationCount |-> Len(pkg.annotations),
     hasMedia |-> FALSE]

\* the metadata object of metadata.json (createdBy is left out when undefined)
MetadataJson(pkg) ==
    [id |-> pkg.id, version |-> pkg.version, createdAt |-> pkg.metadata.createdAt,
     hasCreatedBy |-> pkg.metadata.hasCreatedBy, createdBy |-> pkg.metadata.createdBy,
     source |-> pkg.metadata.source, annotationCount |-> Len(pkg.annotations),
     hasMedia |-> pkg.hasMedia]
NoMetadataJson == MetadataJson(NoPackage)

\* the media entry: its bytes, date and comment
MediaFileEntry(bytes, date, type, size) ==
    [bytes |-> bytes, date |-> date, commentType |-> type, commentSize |-> size]
NoMediaFileEntry == MediaFileEntry(<<>>, 0, EmptyMime, 0)

\* the object of media_metadata.json
MediaMetadataJson(media) ==
    [originalName |-> media.name, type |-> media.type, size |-> media.size,
     lastModified |-> IF media.lastModified # 0 THEN ToISOString(media.lastModified)
                      ELSE <<>>]
NoMediaMetadataJson == MediaMetadataJson(NoMedia)

Archive(names, metadata, annotations, mediaFile, mediaMetadata) ==
    [names |-> names, metadata |-> metadata, annotations |-> annotations,
     mediaFile |-> mediaFile, mediaMetadata |-> mediaMetadata]
NoArchive == Archive({}, NoMetadataJson, <<>>, NoMediaFileEntry, NoMediaMetadataJson)

\* the media block of exportEventPackageAsZip: whether the inner try adds the
\* media entries (its catch logs a decoding error and goes on)
MediaAddedAlways(pkg, options) == options.includeMedia /\ pkg.hasMedia
MediaAdded(pkg, options) ==
    /\ options.includeMedia
    /\ pkg.hasMedia
    /\ ~base64ToUint8ArrayThrows(pkg.media.data)

\* exportEventPackageAsZip at instant t; zipFails tells whether writing an
\* entry or generating the ZIP throws
exportEventPackageAsZip(pkg, options, t, zipFails) ==
    LET media == pkg.media
        names ==
            (IF options.includeMetadata THEN {MetadataEntry} ELSE {})
            \cup {AnnotationsEntry}
            \cup (IF MediaAdded(pkg, options) THEN {MediaEntry(media)} ELSE {})
            \cup (IF MediaAdded(pkg, options) /\ options.includeMetadata
                  THEN {MediaMetadataEntry} ELSE {})
        archive ==
            Archive(names,
                    IF options.includeMetadata THEN MetadataJson(pkg) ELSE NoMetadataJson,
                    AnnotationsJson(pkg.annotations),
                    IF MediaAdded(pkg, options)
                    THEN MediaFileEntry(base64ToUint8Array(media.data),
                                        IF media.lastModified # 0
                                        THEN media.lastModified ELSE t,
                                        media.type, media.size)
                    ELSE NoMediaFileEntry,
                    IF MediaAdded(pkg, options) /\ options.includeMetadata
                    THEN MediaMetadataJson(media) ELSE NoMediaMetadataJson)
    IN  IF zipFails
        THEN [called |-> TRUE, ok |-> FALSE, error |-> "Failed to create export package",
              pkg |-> pkg, options |-> options, archive |-> NoArchive]
        ELSE [called |-> TRUE, ok |-> TRUE, error |-> "",
              pkg |-> pkg, options |-> options, archive |-> archive]

NotExported ==
    [called |-> FALSE, ok |-> FALSE, error |-> "", pkg |-> NoPackage,
     options |-> [includeMedia |-> TRUE, includeMetadata |-> TRUE],
     archive |-> NoArchive]

\* media data that did not come out of a FileReader: plain base64, a string with
\* a character outside the alphabet, and a bare "data:"
ForeignData ==
    {DataString("", EmptyMime, "", Base64Encode(<<77>>)),
     DataString("", EmptyMime, "", <<BadChar>>),
     DataString("data:", EmptyMime, "", <<>>)}

(***************************************************************************)
(* The builder and the exporter at work                                    *)
(***************************************************************************)

PkgRest ==
    /\ bFormData = [id \in LabelIds |-> Undefined]
    /\ bLabels = <<>>
    /\ bFile = NoFile
    /\ bOptions = NoOptions
    /\ now = 0
    /\ uuids = 0
    /\ built = <<>>
    /\ exported = NotExported

\* the arguments of createEventPackage: a form of any shape with no file or a
\* small one, or a one-field form with a file of any content and type
BuilderInputs ==
/\ \/ /\ bLabels \in BuilderLabelLists
      /\ bFormData \in [LabelIds -> BuilderValues]
      /\ bFile \in {NoFile, File(Mime("image", "png"), "photo", 1, <<77>>)}
      /\ bOptions = NoOptions
   \/ /\ bLabels = <<Label("1", "text", FALSE, NoConstraints)>>
      /\ bFormData = [id \in LabelIds |-> IF id = "1" THEN Str(<<"a">>) ELSE Undefined]
      /\ bFile \in Files
      /\ bOptions \in SomeOptions

PkgInit ==
    /\ BuilderInputs
    /\ now = 0
    /\ uuids = 0
    /\ built = <<>>
    /\ exported = NotExported

\* time passes
Tick ==
    /\ now < MaxClock
    /\ now' = now + 1
    /\ UNCHANGED <<bFormData, bLabels, bFile, bOptions, uuids, built, exported>>
    /\ UNCHANGED notPkgVars

\* a build that is handed an id uuidv4 gave out before
BuildStaleId ==
    /\ Len(built) < MaxBuilds
    /\ built' = Append(built, createEventPackage(bFormData, bLabels, bFile, bOptions,
                                                 now, 1, FALSE))
    /\ uuids' = uuids + 1
    /\ UNCHANGED <<bFormData, bLabels, bFile, bOptions, now, exported>>
    /\ UNCHANGED notPkgVars

\* a call of createEventPackage in which the file, if any, is read
Build ==
    /\ Len(built) < MaxBuilds
    /\ built' = Append(built, createEventPackage(bFormData, bLabels, bFile, bOptions,
                                                 now, uuids + 1, FALSE))
    /\ uuids' = uuids + 1
    /\ UNCHANGED <<bFormData, bLabels, bFile, bOptions, now, exported>>
    /\ UNCHANGED notPkgVars

\* a call of createEventPackage in which the FileReader fails
BuildReadFails ==
    /\ Len(built) < MaxBuilds
    /\ bFile.present
    /\ built' = Append(built, createEventPackage(bFormData, bLabels, bFile, bOptions,
                                                 now, uuids + 1, TRUE))
    /\ UNCHANGED <<bFormData, bLabels, bFile, bOptions, now, uuids, exported>>
    /\ UNCHANGED notPkgVars

\* the inputs of PkgInit with the package createEventPackage built from them
ZipInit ==
    /\ BuilderInputs
    /\ now = 0
    /\ uuids = 1
    /\ built = <<createEventPackage(bFormData, bLabels, bFile, bOptions, 0, 1, FALSE)>>
    /\ exported = NotExported

\* exportEventPackageAsZip on a package the builder returned
Export ==
    /\ ~exported.called
    /\ \E i \in DOMAIN built, options \in ExportOptions, zipFails \in BOOLEAN :
        /\ built[i].ok
        /\ exported' = exportEventPackageAsZip(built[i].pkg, options, now, zipFails)
    /\ UNCHANGED <<bFormData, bLabels, bFile, bOptions, now, uuids, built>>
    /\ UNCHANGED notPkgVars

\* exportEventPackageAsZip on a package whose media data is not a FileReader's
ExportForeign ==
    /\ ~exported.called
    /\ \E i \in DOMAIN built, options \in ExportOptions, data \in ForeignData :
        /\ built[i].ok
        /\ built[i].pkg.hasMedia
        /\ exported' = exportEventPackageAsZip(
                           [built[i].pkg EXCEPT !.media.data = data], options, now, FALSE)
    /\ UNCHANGED <<bFormData, bLabels, bFile, bOptions, now, uuids, built>>
    /\ UNCHANGED notPkgVars

PkgNext == Tick \/ Build \/ BuildReadFails

ZipNext == Export \/ ExportForeign

(***************************************************************************)
(* Label cache                                                             *)
(***************************************************************************)

\* Days the model lets pass over a cached item.
MaxDays == 2

\* the label lists a relay serves or a cache holds, as lists of labelIds
Snapshots == {<<>>, <<"1">>, <<"1", "2">>}

\* localStorage.getItem's null
NoItem == <<"null">>
\* JSON.stringify(labels) and JSON.parse of it
LabelsJson(snapshot) == <<"json", snapshot>>
LabelsParse(text) == text[2]

LabRest ==
    /\ storedLabels = NoItem
    /\ cacheAge = 0
    /\ relayLabels = <<>>
    /\ labPc = [c \in Calls |-> "idle"]
    /\ labSeenAge = [c \in Calls |-> -1]
    /\ labFetched = [c \in Calls |-> FALSE]
    /\ labResult = [c \in Calls |-> <<>>]
    /\ hookLabels = <<>>
    /\ labelStatus = "Initializing"

\* a first run (no item) or a later one with an item of any age
LabInit ==
    /\ \/ storedLabels = NoItem /\ cacheAge = 0
       \/ storedLabels \in {LabelsJson(x) : x \in Snapshots} /\ cacheAge \in 0..MaxDays
    /\ relayLabels \in Snapshots
    /\ labPc = [c \in Calls |-> "idle"]
    /\ labSeenAge = [c \in Calls |-> -1]
    /\ labFetched = [c \in Calls |-> FALSE]
    /\ labResult = [c \in Calls |-> <<>>]
    /\ hookLabels = <<>>
    /\ labelStatus = "Initializing"

\* getCachedLabels
getCachedLabels == IF storedLabels # NoItem THEN LabelsParse(storedLabels) ELSE <<"null">>

\* cacheLabels
cacheLabels(snapshot) == LabelsJson(snapshot)

\* the hook's init up to its await, with initializeLabels' read of the cache:
\* a cached list is returned as it is, else fetchLabels is called
InitLabels(c) ==
    /\ labPc[c] = "idle"
    /\ labelStatus' = "Fetching"
    /\ labSeenAge' = [labSeenAge EXCEPT ![c] = IF storedLabels # NoItem THEN cacheAge ELSE -1]
    /\ IF storedLabels # NoItem
       THEN /\ labResult' = [labResult EXCEPT ![c] = getCachedLabels]
            /\ labPc' = [labPc EXCEPT ![c] = "returned"]
            /\ UNCHANGED labFetched
       ELSE /\ labPc' = [labPc EXCEPT ![c] = "fetching"]
            /\ labFetched' = [labFetched EXCEPT ![c] = TRUE]
            /\ UNCHANGED labResult
    /\ UNCHANGED <<storedLabels, cacheAge, relayLabels, hookLabels>>
    /\ UNCHANGED notLabVars

\* fetchLabels resolves: the list is cached and returned
FetchResolves(c) ==
    /\ labPc[c] = "fetching"
    /\ storedLabels' = cacheLabels(relayLabels)
    /\ cacheAge' = 0
    /\ labResult' = [labResult EXCEPT ![c] = relayLabels]
    /\ labPc' = [labPc EXCEPT ![c] = "returned"]
    /\ UNCHANGED <<relayLabels, labSeenAge, labFetched, hookLabels, labelStatus>>
    /\ UNCHANGED notLabVars

\* a failed fetch that removes the item
FetchRejectsClears(c) ==
    /\ labPc[c] = "fetching"
    /\ labPc' = [labPc EXCEPT ![c] = "failed"]
    /\ labelStatus' = "Error"
    /\ storedLabels' = NoItem
    /\ UNCHANGED <<cacheAge, relayLabels, labSeenAge, labFetched, labResult, hookLabels>>
    /\ UNCHANGED notLabVars

\* fetchLabels rejects (the relay is failing): initializeLabels rejects and the
\* hook's catch sets the status
FetchRejects(c) ==
    /\ labPc[c] = "fetching"
    /\ labPc' = [labPc EXCEPT ![c] = "failed"]
    /\ labelStatus' = "Error"
    /\ UNCHANGED <<storedLabels, cacheAge, relayLabels, labSeenAge, labFetched,
                   labResult, hookLabels>>
    /\ UNCHANGED notLabVars

\* the hook after its await: setLabels(fetchedLabels), setLabelStatus("Loaded")
SetLabels(c) ==
    /\ labPc[c] = "returned"
    /\ hookLabels' = labResult[c]
    /\ labelStatus' = "Loaded"
    /\ labPc' = [labPc EXCEPT ![c] = "done"]
    /\ UNCHANGED <<storedLabels, cacheAge, relayLabels, labSeenAge, labFetched, labResult>>
    /\ UNCHANGED notLabVars

\* a day goes by
DayPasses ==
    /\ storedLabels # NoItem
    /\ cacheAge < MaxDays
    /\ cacheAge' = cacheAge + 1
    /\ UNCHANGED <<storedLabels, relayLabels, labPc, labSeenAge, labFetched, labResult,
                   hookLabels, labelStatus>>
    /\ UNCHANGED notLabVars

LabNext ==
    \/ \E c \in Calls :
          InitLabels(c) \/ FetchResolves(c) \/ FetchRejects(c) \/ SetLabels(c)
    \/ DayPasses

(***************************************************************************)
(* Event form                                                              *)
(***************************************************************************)

\* the labels a form is given
FormLabels ==
    {Label("1", "text", TRUE, Constraints(FALSE, 0, FALSE, 0, TRUE, 1)),
     Label("1", "boolean", TRUE, NoConstraints),
     Label("2", "number", FALSE, Constraints(TRUE, 1, TRUE, 1, FALSE, 0)),
     Label("2", "enum", TRUE, NoConstraints)}

FormLabelLists ==
    {ls \in UNION {[1..k -> FormLabels] : k \in 0..Cardinality(LabelIds)} :
        \A i, j \in DOMAIN ls : i # j => ls[i].labelId # ls[j].labelId}

\* handleChange: the value an input of a label's type gives (a checkbox its
\* checked flag, a number input null for "" else Number(value), any other input
\* null for "" else its text)
InputValues(type) ==
    CASE type = "boolean" -> {Bool(b) : b \in BOOLEAN}
      [] type = "number" -> {Null} \cup {Num(n) : n \in Numbers}
      [] OTHER -> {Null} \cup {Str(x) : x \in Strings \ {<<>>}}

\* the file an <input type="file"> hands over
PickedFile == File(Mime("image", "png"), "photo", 1, <<77>>)

\* cleanData: the entries of formData under the labelIds of the labels
CleanData(formData, labelList) ==
    [id \in LabelIds |->
        IF \E i \in DOMAIN labelList : labelList[i].labelId = id
        THEN formData[id] ELSE Undefined]

Handoff(how, formData, labelList, archive) ==
    [how |-> how, formData |-> formData, labels |-> labelList, archive |-> archive]
NoHandoff == Handoff("none", [id \in LabelIds |-> Undefined], <<>>, NoArchive)

FormRest ==
    /\ fLabels = <<>>
    /\ fFormData = [id \in LabelIds |-> Undefined]
    /\ fMediaFile = NoFile
    /\ fErrors = <<>>
    /\ handoff = NoHandoff

FormInit ==
    /\ fLabels \in FormLabelLists
    /\ fFormData = [id \in LabelIds |-> Undefined]
    /\ fMediaFile = NoFile
    /\ fErrors = <<>>
    /\ handoff = NoHandoff

\* handleChange on the input of one of the labels
HandleChange ==
    /\ \E i \in DOMAIN fLabels : \E v \in InputValues(fLabels[i].type) :
          fFormData' = [fFormData EXCEPT ![fLabels[i].labelId] = v]
    /\ UNCHANGED <<fLabels, fMediaFile, fErrors, handoff>>
    /\ UNCHANGED notFormVars

\* handleFileChange / handlePhotoInput, and the button that removes the file
HandleFileChange ==
    /\ fMediaFile' = IF fMediaFile = NoFile THEN PickedFile ELSE NoFile
    /\ UNCHANGED <<fLabels, fFormData, fErrors, handoff>>
    /\ UNCHANGED notFormVars

\* a validate() that accepts whatever the form holds
validateSkipped == TRUE
\* validate(): validateFormData on cleanData, plus the media error
validate ==
    /\ validateFormData(CleanData(fFormData, fLabels), fLabels).isValid
    /\ fMediaFile # NoFile

\* handleSubmit: nothing happens unless validate() holds; then the package is
\* built and exported and the archive uploaded, after which the form is cleared.
\* A failure of the build, of the configuration or of the upload is caught.
HandleSubmit ==
    /\ fErrors' = validateFormData(CleanData(fFormData, fLabels), fLabels).errors
    /\ IF ~validate
       THEN UNCHANGED <<fFormData, fMediaFile, handoff>>
       ELSE \E readFails, sendFails \in BOOLEAN :
             LET made == createEventPackage(CleanData(fFormData, fLabels), fLabels,
                                            fMediaFile, Options(FALSE, "", TRUE, "web"),
                                            0, 1, readFails)
                 zip == exportEventPackageAsZip(made.pkg,
                            [includeMedia |-> TRUE, includeMetadata |-> TRUE], 0, FALSE)
             IN  IF made.ok /\ ~sendFails
                 THEN /\ handoff' = Handoff("upload", fFormData, fLabels, zip.archive)
                      /\ fFormData' = [id \in LabelIds |-> Undefined]
                      /\ fMediaFile' = NoFile
                 ELSE UNCHANGED <<fFormData, fMediaFile, handoff>>
    /\ UNCHANGED fLabels
    /\ UNCHANGED notFormVars

\* handleSaveDraft: with a media file, the package is built from cleanData and
\* downloaded as an archive; the description and priority keys it adds are keys
\* of no label, which createEventPackage does not read
HandleSaveDraft ==
    /\ fMediaFile # NoFile
    /\ \E readFails \in BOOLEAN :
          LET made == createEventPackage(CleanData(fFormData, fLabels), fLabels,
                                         fMediaFile, Options(FALSE, "", TRUE, "web"),
                                         0, 1, readFails)
              zip == exportEventPackageAsZip(made.pkg,
                         [includeMedia |-> TRUE, includeMetadata |-> TRUE], 0, FALSE)
          IN  IF made.ok
              THEN handoff' = Handoff("download", fFormData, fLabels, zip.archive)
              ELSE UNCHANGED handoff
    /\ UNCHANGED <<fLabels, fFormData, fMediaFile, fErrors>>
    /\ UNCHANGED notFormVars

FormNext == HandleChange \/ HandleFileChange \/ HandleSubmit \/ HandleSaveDraft

(***************************************************************************)
(* Application shell                                                       *)
(***************************************************************************)

\* the runs of the two hooks' effects in one page load: one, and a second one
\* under React StrictMode
AppCalls == {c \in Calls : c <= 2}

\* the label cache at the start of a page load, its age left aside
AppLabInit == LabInit /\ cacheAge = 0

AppRest ==
    /\ keyPair = NoPair
    /\ keyError = FALSE
    /\ keyHandled = [c \in Calls |-> FALSE]

\* initializeKeys after its await resolved: setKeyPair with both keys
SetKeyPair(c) ==
    /\ kmPc[c] = "done"
    /\ ~keyHandled[c]
    /\ keyPair' = [publicKey |-> kmResult[c].publicKey,
                   privateKey |-> kmResult[c].privateKey]
    /\ keyHandled' = [keyHandled EXCEPT ![c] = TRUE]
    /\ UNCHANGED keyError
    /\ UNCHANGED notAppVars

\* a catch block that also publishes whatever storeKeyPair had generated
SetErrorAndPair(c) ==
    /\ kmPc[c] = "failed"
    /\ ~keyHandled[c]
    /\ keyError' = TRUE
    /\ keyPair' = kmLocal[c]
    /\ keyHandled' = [keyHandled EXCEPT ![c] = TRUE]
    /\ UNCHANGED notAppVars

\* initializeKeys' catch: setError, keyPair untouched
SetError(c) ==
    /\ kmPc[c] = "failed"
    /\ ~keyHandled[c]
    /\ keyError' = TRUE
    /\ keyHandled' = [keyHandled EXCEPT ![c] = TRUE]
    /\ UNCHANGED keyPair
    /\ UNCHANGED notAppVars

\* the key store is emptied from outside the app (site data cleared)
StoreCleared ==
    /\ keys # {}
    /\ keys' = {}
    /\ UNCHANGED <<everStored, nextKey, initialKeys, kmPc, kmExists, kmLocal,
                   kmInserted, kmResult, kmSeenDone>>
    /\ UNCHANGED notKeyVars

\* useKeyInitialization's isLoading
isLoading == keyPair = NoPair /\ ~keyError

\* an isInitialized that looks at keyPair only
isInitializedAnyPair == keyPair # NoPair
\* useKeyInitialization's isInitialized
isInitialized == keyPair # NoPair /\ ~keyError

\* an App that renders its routes whatever the hooks hold
AppUngated == "routes"
\* what App renders: the spinner, the error display, the loading notice, or
\* the routes with the event form
App ==
    IF isLoading THEN "spinner"
    ELSE IF keyError THEN "error"
    ELSE IF keyPair = NoPair \/ Len(hookLabels) = 0 THEN "loading"
    ELSE "routes"

AppNext ==
    \/ \E c \in AppCalls :
          \/ KmCall(c)
          \/ KmCheck(c)
          \/ StoreGenerate(c)
          \/ StoreGenerateFails(c)
          \/ StoreInsert(c)
          \/ StoreInsertFails(c)
          \/ KmRetrieve(c)
          \/ SetKeyPair(c)
          \/ SetError(c)
    \/ StoreCleared
    \/ \E c \in AppCalls :
          InitLabels(c) \/ FetchResolves(c) \/ FetchRejects(c) \/ SetLabels(c)

(***************************************************************************)
(* Specifications                                                          *)
(***************************************************************************)

InitPow == PowInit /\ KeyRest /\ ValRest /\ PkgRest /\ FlowRest /\ LabRest /\ FormRest /\ AppRest
SpecPow == InitPow /\ [][PowNext]_vars

InitKeys == KeyInit /\ PowRest /\ ValRest /\ PkgRest /\ FlowRest /\ LabRest /\ FormRest /\ AppRest
SpecKeys == InitKeys /\ [][KeyNext]_vars

InitVal == ValInit /\ PowRest /\ KeyRest /\ PkgRest /\ FlowRest /\ LabRest /\ FormRest /\ AppRest
SpecVal == InitVal /\ [][ValNext]_vars

InitPkg == PkgInit /\ PowRest /\ KeyRest /\ ValRest /\ FlowRest /\ LabRest /\ FormRest /\ AppRest
SpecPkg == InitPkg /\ [][PkgNext]_vars

InitFlow == FlowInit /\ KeyRest /\ ValRest /\ PkgRest /\ LabRest /\ FormRest /\ AppRest
SpecFlow == InitFlow /\ [][FlowNext]_vars

\* the flow's own steps: the loop of solvePow runs on, and the two requests,
\* which pow.ts answers from a timer, are answered
FlowSteps ==
    \/ RunPow \/ ChallengeReceived \/ SolveEnter \/ SolveNext \/ SolveReturn
    \/ SubmitSolution \/ SolutionAnswered
SpecFlowFair == InitFlow /\ [][FlowNext]_vars /\ WF_vars(FlowSteps)

InitLab == LabInit /\ PowRest /\ KeyRest /\ ValRest /\ PkgRest /\ FlowRest /\ FormRest /\ AppRest
SpecLab == InitLab /\ [][LabNext]_vars

InitForm ==
    FormInit /\ PowRest /\ KeyRest /\ ValRest /\ PkgRest /\ FlowRest /\ LabRest /\ AppRest
SpecForm == InitForm /\ [][FormNext]_vars

InitApp ==
    KeyInit /\ AppLabInit /\ AppRest /\ PowRest /\ ValRest /\ PkgRest /\ FlowRest /\ FormRest
SpecApp == InitApp /\ [][AppNext]_vars

InitZip == ZipInit /\ PowRest /\ KeyRest /\ ValRest /\ FlowRest /\ LabRest /\ FormRest /\ AppRest
SpecZip == InitZip /\ [][ZipNext]_vars

(***************************************************************************)
(* Claims                                                                  *)
(***************************************************************************)


\* C1: the nonce solvePow returns satisfies the challenge (its digest starts with
\* `difficulty` zero characters), is not negative, and no smaller counter value
\* from 0 on satisfies it.
C1_SolveMinimal ==
    powPc = "returned" =>
        /\ powResult >= 0
        /\ \A i \in 1..challenge.difficulty : hashTable[powResult][i] = "0"
        /\ \A m \in 0..(powResult - 1) :
              \E i \in 1..challenge.difficulty : hashTable[m][i] # "0"

\* a search that skipped at least one counter value and returned for a
\* challenge of positive difficulty
C1_Witness ==
    /\ powPc = "returned"
    /\ powResult > 0
    /\ challenge.difficulty > 0

\* C2: when KeyManagement calls overlap, at most one key pair is ever written to
\* the "keys" store, the store never holds two rows, and once a call has returned
\* exactly one pair has been persisted.
C2_OnePairPersisted ==
    /\ Cardinality(everStored) <= 1
    /\ Cardinality(keys) <= 1
    /\ (\E c \in Calls : kmPc[c] = "done") => Cardinality(everStored) = 1

\* two calls both passed the existence check on a fresh store, both generated a
\* pair, and both returned
C2_Witness ==
    \E a, b \in Calls :
        /\ a # b
        /\ initialKeys = {}
        /\ kmLocal[a] # NoPair /\ kmLocal[b] # NoPair
        /\ kmPc[a] = "done" /\ kmPc[b] = "done"

\* call a returned before call b began
InSequence(a, b) == a # b /\ a \in kmSeenDone[b]

\* call a ran with no other call overlapping it
RanAlone(a) == \A c \in Calls \ {a} : kmPc[c] = "idle" \/ a \in kmSeenDone[c]

\* C3: a KeyManagement call made after another one returned neither generates nor
\* inserts a pair, does not fail, and returns the key material the first returned;
\* on a fresh store a first call that ran alone generated and persisted the pair
\* it returned.
C3_SequentialSame ==
    \A a, b \in Calls :
        InSequence(a, b) =>
            /\ kmLocal[b] = NoPair
            /\ ~kmInserted[b]
            /\ kmPc[b] # "failed"
            /\ kmPc[b] = "done" => kmResult[b] = kmResult[a]
            /\ (initialKeys = {} /\ RanAlone(a)) =>
                  /\ kmInserted[a]
                  /\ kmLocal[a] = kmResult[a]

\* on a fresh store one call ran alone and returned, then a second call returned
C3_Witness ==
    \E a, b \in Calls :
        /\ InSequence(a, b)
        /\ RanAlone(a)
        /\ initialKeys = {}
        /\ kmPc[b] = "done"
        /\ kmResult[b] # NoPair

\* the value family of a label type
FamilyOf(type) ==
    CASE type = "number" -> "number"
      [] type = "boolean" -> "boolean"
      [] OTHER -> "string"

\* the value validateFormData reads for a label
Given(label) == vFormData[label.labelId]

WithinMinMax(label, v) ==
    /\ (label.constraints.hasMin => (~v.nan /\ v.n >= label.constraints.min))
    /\ (label.constraints.hasMax => (~v.nan /\ v.n <= label.constraints.max))

WithinMaxLength(label, v) ==
    label.constraints.hasMaxLength => Len(v.s) <= label.constraints.maxLength

FieldAccepted(label, v) ==
    /\ label.required => v \notin {Undefined, Null, Str(<<>>)}
    /\ v \notin {Undefined, Null} =>
        /\ label.type = "number" => (v.t = "number" /\ (v.nan \/ WithinMinMax(label, v)))
        /\ label.type = "text" => (v.t = "string" /\ WithinMaxLength(label, v))

C5_EmptyOptionalSkipped ==
    vResult.called =>
        \A i \in DOMAIN vLabels :
            (~vLabels[i].required /\ IsEmptyValue(Given(vLabels[i])))
                => vLabels[i].labelId \notin DOMAIN vResult.errors

\* the value createEventPackage reads for the i-th label
BuilderValue(i) == bFormData[bLabels[i].labelId]

\* C6 as claimed: a build is rejected whenever some label's value is non-null and
\* its runtime type is not in the family of the label's type.
C6_FamilyEnforced ==
    \A k \in DOMAIN built :
        (\E i \in DOMAIN bLabels :
            /\ BuilderValue(i).t \notin {"undefined", "null"}
            /\ BuilderValue(i).t # FamilyOf(bLabels[i].type))
        => ~built[k].ok

\* C6 (amended): the type check rejects the build, returning no package, exactly
\* when some label's value is non-null and is no string, number or boolean; the
\* value's type is not compared with the label's type.
C6_PrimitiveEnforced ==
    \A k \in DOMAIN built :
        /\ built[k].error = "Invalid value type" <=>
              \E i \in DOMAIN bLabels :
                  BuilderValue(i).t \notin
                      {"undefined", "null", "string", "number", "boolean"}
        /\ built[k].error = "Invalid value type" =>
              (~built[k].ok /\ built[k].pkg = NoPackage)

\* a build rejected for a value that is no FieldValue
C6_Witness ==
    \E k \in DOMAIN built :
        /\ built[k].error = "Invalid value type"
        /\ \E i \in DOMAIN bLabels : BuilderValue(i) = Obj

\* the labelIds of the schema snapshot
SnapshotIds == {bLabels[i].labelId : i \in DOMAIN bLabels}

\* C7 as claimed: a returned package has exactly one annotation per label, each
\* with the labelId of a label of the snapshot.
C7_OnlySnapshotAnnotations ==
    \A k \in DOMAIN built :
        built[k].ok =>
            /\ Len(built[k].pkg.annotations) = Len(bLabels)
            /\ \A i \in DOMAIN built[k].pkg.annotations :
                  built[k].pkg.annotations[i].labelId \in SnapshotIds

\* C7 (amended): a returned package has one annotation per label, in the order of
\* the labels, with the label's labelId and the value formData holds for it (null
\* when absent), followed by exactly one annotation that is not from the snapshot:
\* labelId "createdAt", whose value is the build's timestamp.
C7_SnapshotPlusCreatedAt ==
    \A k \in DOMAIN built :
        built[k].ok =>
            LET a == built[k].pkg.annotations IN
            /\ Len(a) = Len(bLabels) + 1
            /\ \A i \in DOMAIN bLabels :
                  /\ a[i].labelId = bLabels[i].labelId
                  /\ a[i].value = IF BuilderValue(i) = Undefined THEN Null
                                  ELSE BuilderValue(i)
            /\ a[Len(a)].labelId = "createdAt"
            /\ a[Len(a)].value = Str(built[k].pkg.metadata.createdAt)

\* a package built from two labels, one of them with no value in the form
C7_Witness ==
    \E k \in DOMAIN built :
        /\ built[k].ok
        /\ Len(bLabels) = 2
        /\ BuilderValue(1) = Undefined
        /\ BuilderValue(2) \notin {Undefined, Null}

\* the labelId/value pairs of a package's annotations
Content(pkg) ==
    [i \in DOMAIN pkg.annotations |->
        <<pkg.annotations[i].labelId, pkg.annotations[i].value>>]

\* C8 as claimed: two packages built from the same inputs at two different
\* instants have different ids and the same annotations content.
C8_SameContent ==
    \A j, k \in DOMAIN built :
        (j # k /\ built[j].ok /\ built[k].ok /\ built[j].at # built[k].at) =>
            /\ built[j].pkg.id # built[k].pkg.id
            /\ Content(built[j].pkg) = Content(built[k].pkg)

\* C8 (amended): two packages built from the same inputs have different ids and
\* the same labelId and value in every annotation made from a label; when they
\* are built at different instants the timestamp of every annotation and the
\* value of the trailing createdAt annotation differ.
C8_SameLabelContent ==
    \A j, k \in DOMAIN built :
        (j # k /\ built[j].ok /\ built[k].ok) =>
            LET a == built[j].pkg.annotations
                b == built[k].pkg.annotations
            IN  /\ built[j].pkg.id # built[k].pkg.id
                /\ Len(a) = Len(b)
                /\ \A i \in DOMAIN bLabels :
                      a[i].labelId = b[i].labelId /\ a[i].value = b[i].value
                /\ built[j].at # built[k].at =>
                      /\ \A i \in DOMAIN a : a[i].timestamp # b[i].timestamp
                      /\ a[Len(a)].value # b[Len(b)].value

\* two packages built from a two-label form at two different instants
C8_Witness ==
    /\ Len(built) = 2
    /\ built[1].ok /\ built[2].ok
    /\ built[1].at # built[2].at
    /\ Len(bLabels) = 2

\* the media entry was asked for: includeMedia and the package has media
MediaAsked == exported.options.includeMedia /\ exported.pkg.hasMedia

\* media data atob cannot decode: a character outside the alphabet, a bare
\* "data:", or a data URL whose type holds a comma
Undecodable(data) ==
    \/ data \in {DataString("", EmptyMime, "", <<BadChar>>),
                 DataString("data:", EmptyMime, "", <<>>)}
    \/ data.marker = ";base64," /\ HasComma(data.type)

\* the names of the media entries in the exported archive
MediaNames == {n \in exported.archive.names : n[1] \in {"media", "media_metadata"}}

\* C9 as claimed: an export returns an archive only if it holds every entry it
\* was asked to include; when the media cannot be decoded it fails.
C9_NoPartialArchive ==
    (exported.called /\ exported.ok /\ MediaAsked) =>
        MediaEntry(exported.pkg.media) \in exported.archive.names

\* C9 (amended): an export that fails to write or generate the ZIP ends with an
\* error and no archive; media data that cannot be decoded does not fail the
\* export: the archive is returned with annotations.json (and metadata.json when
\* asked) but without the media entry and without media_metadata.json.
C9_MediaErrorSwallowed ==
    exported.called =>
        /\ ~exported.ok => exported.archive = NoArchive
        /\ exported.ok =>
            /\ AnnotationsEntry \in exported.archive.names
            /\ exported.options.includeMetadata => MetadataEntry \in exported.archive.names
            /\ (MediaAsked /\ Undecodable(exported.pkg.media.data)) => MediaNames = {}
            /\ (MediaAsked /\ ~Undecodable(exported.pkg.media.data)) =>
                  MediaEntry(exported.pkg.media) \in exported.archive.names

\* an archive returned for a package whose media was asked for and is undecodable
C9_Witness ==
    /\ exported.called
    /\ exported.ok
    /\ MediaAsked
    /\ exported.pkg.media.data = DataString("", EmptyMime, "", <<BadChar>>)

\* the exported package is one createEventPackage returned
FromBuilder == \E k \in DOMAIN built : built[k].ok /\ exported.pkg = built[k].pkg

\* C10 as claimed: the archive of a package createEventPackage returned unpacks
\* to the package's annotation list (same labelId, value and order) and, when a
\* file was supplied and media is included, to a media entry whose byte length is
\* the file's size, recorded with the file's MIME type.
C10_RoundTripAll ==
    (exported.called /\ exported.ok /\ FromBuilder) =>
        /\ ParseAnnotations(exported.archive.annotations) = exported.pkg.annotations
        /\ (bFile.present /\ exported.options.includeMedia) =>
            /\ MediaEntry(exported.pkg.media) \in exported.archive.names
            /\ Len(exported.archive.mediaFile.bytes) = bFile.size
            /\ exported.archive.mediaFile.commentType = bFile.type

\* the annotation list with every NaN value replaced by null
NaNAsNull(annotations) ==
    [i \in DOMAIN annotations |->
        IF annotations[i].value = NaN
        THEN EventAnnotation(annotations[i].labelId, Null, annotations[i].timestamp)
        ELSE annotations[i]]

\* C10 (amended): the archive of a package createEventPackage returned unpacks to
\* the package's annotation list with every NaN value read back as null (the same
\* list when no value is NaN) and, when a file was supplied and media is
\* included, to a media entry with the file's bytes, whose length is the file's
\* size, recorded with the file's MIME type, unless that type holds a comma: then
\* the archive has no media entry.
C10_RoundTrip ==
    (exported.called /\ exported.ok /\ FromBuilder) =>
        /\ ParseAnnotations(exported.archive.annotations)
              = NaNAsNull(exported.pkg.annotations)
        /\ (bFile.present /\ exported.options.includeMedia /\ HasComma(bFile.type)) =>
              MediaNames = {}
        /\ (bFile.present /\ exported.options.includeMedia /\ ~HasComma(bFile.type)) =>
            /\ MediaEntry(exported.pkg.media) \in exported.archive.names
            /\ Len(exported.archive.mediaFile.bytes) = bFile.size
            /\ exported.archive.mediaFile.bytes = bFile.bytes
            /\ exported.archive.mediaFile.commentType = bFile.type
            /\ exported.archive.mediaFile.commentSize = bFile.size
            /\ exported.options.includeMetadata =>
                  /\ MediaMetadataEntry \in exported.archive.names
                  /\ exported.archive.mediaMetadata.type = bFile.type
                  /\ exported.archive.mediaMetadata.size = bFile.size

\* an archive with media of a package whose annotations hold false and null
C10_Witness ==
    /\ exported.called
    /\ exported.ok
    /\ FromBuilder
    /\ bFile.present
    /\ exported.options.includeMedia
    /\ \E i, j \in DOMAIN bLabels :
          /\ exported.pkg.annotations[i].value = Bool(FALSE)
          /\ exported.pkg.annotations[j].value = Null

\* an archive with the media of a file whose length is no multiple of three
C10_WitnessPadded ==
    /\ exported.called
    /\ exported.ok
    /\ FromBuilder
    /\ exported.options.includeMedia
    /\ bFile.size = MaxFileLen
    /\ ~HasComma(bFile.type)
    /\ MediaEntry(exported.pkg.media) \in exported.archive.names

\* C11 as claimed: every package createEventPackage returns with media has a
\* media type of the MediaType union; a file of another type makes the build
\* throw.
C11_MediaAllowListed ==
    \A k \in DOMAIN built :
        (built[k].ok /\ built[k].pkg.hasMedia) => built[k].pkg.media.type \in MediaType

\* the phase of the admission flow a status text stands for
PhaseOf(status) ==
    CASE status = "Initializing" -> "Idle"
      [] status = "Fetching challenge" -> "ChallengeRequested"
      [] status = "Solving" -> "Solving"
      [] status = "Submitting solution" -> "SolutionSubmitted"
      [] status = "Completed successfully" -> "Admitted"
      [] OTHER -> "Failed"

\* the phases after Idle, in the order of the state machine, ending in last
FlowPath(last) == <<"ChallengeRequested", "Solving", "SolutionSubmitted", last>>

\* C12: the phases the flow enters are, in order and without a gap or a repeat,
\* ChallengeRequested, Solving, SolutionSubmitted and then Admitted or Failed;
\* Solving is entered only with a challenge received, a solution is submitted
\* only once solvePow returned, and it is the nonce solvePow returned for that
\* challenge; the terminal phase is entered only after the submission.
C12_FlowOrder ==
    /\ \E last \in {"Admitted", "Failed"} :
          /\ Len(statusLog) <= Len(FlowPath(last))
          /\ \A i \in DOMAIN statusLog : PhaseOf(statusLog[i]) = FlowPath(last)[i]
    /\ powStatus = IF statusLog = <<>> THEN "Initializing" ELSE statusLog[Len(statusLog)]
    /\ PhaseOf(powStatus) \in {"Idle", "ChallengeRequested"} => powPc = "uncalled"
    /\ PhaseOf(powStatus) \in {"Idle", "ChallengeRequested", "Solving"} => submitted = -1
    /\ PhaseOf(powStatus) \in {"SolutionSubmitted", "Admitted", "Failed"} =>
          /\ powPc = "returned"
          /\ submitted = powResult
          /\ SolveHit(submitted)

\* a flow that ended Admitted with a nonce found after at least one miss
C12_Witness ==
    /\ PhaseOf(powStatus) = "Admitted"
    /\ submitted > 0
    /\ Len(statusLog) = 4

\* C13 as claimed: while a search is in flight a waiting user-interaction event
\* can be handled; the search does not occupy the thread that handles them.
C13_SearchOffThread ==
    (powPc = "loop" /\ uiPending > 0) => ENABLED HandleEvent

\* C14 as claimed: once the owning component is gone the flow performs no
\* further step: no status update, no search iteration, no submission.
C14_CancelHalts ==
    [][~mounted =>
          /\ powStatus' = powStatus
          /\ statusLog' = statusLog
          /\ submitted' = submitted
          /\ powPc' = powPc
          /\ nonce' = nonce]_vars

\* C15 as claimed: a run of initializeLabels that finds a cached list a day old
\* or older fetches and replaces the cache; one that finds a younger list does
\* not fetch and returns the cached list.
C15_StaleRefetched ==
    \A c \in Calls :
        labPc[c] \in {"returned", "done"} =>
            /\ labSeenAge[c] >= 1 => labFetched[c]
            /\ labSeenAge[c] = 0 => ~labFetched[c]

\* C18: a run of initializeLabels that finds a cached list returns that list
\* without needing the relay, and the cached item changes only when a fetch
\* succeeds, to the list that fetch returned: a failed fetch leaves it alone.
C18_FailSoft ==
    /\ [](\A c \in Calls :
            labSeenAge[c] >= 0 =>
                /\ labPc[c] \in {"returned", "done"}
                /\ ~labFetched[c]
                /\ LabelsJson(labResult[c]) = storedLabels)
    /\ [][storedLabels' # storedLabels =>
            \E c \in Calls :
                /\ labPc[c] = "fetching"
                /\ labPc'[c] = "returned"
                /\ storedLabels' = LabelsJson(labResult'[c])
                /\ labResult'[c] = relayLabels]_vars

\* one run's fetch failed after the other's had filled the cache, which stands
C18_Witness ==
    \E c, d \in Calls :
        /\ labPc[c] = "failed"
        /\ labPc[d] = "done"
        /\ labFetched[d]
        /\ storedLabels = LabelsJson(relayLabels)
        /\ relayLabels # <<>>

\* a run found a cached list that the relay no longer serves and returned it
C18_WitnessCached ==
    \E c \in Calls :
        /\ labSeenAge[c] >= 0
        /\ labPc[c] = "done"
        /\ hookLabels # relayLabels
        /\ hookLabels # <<>>

\* C16 as claimed: every archive the form hands off, uploaded by handleSubmit or
\* downloaded by handleSaveDraft, is built from values that validateFormData
\* accepts for the labels
Validated(h) == validateFormData(CleanData(h.formData, h.labels), h.labels).isValid
FullPair(pair) == pair.publicKey # NoKey /\ pair.privateKey # NoKey

\* the cache held no item when the page loaded: it still holds none, or a run
\* of initializeLabels found none and went to the relay
FirstRun == storedLabels = NoItem \/ \E c \in Calls : labFetched[c]

\* C17: the routes with the event form are rendered only when a KeyManagement
\* call returned the pair the hook holds and no call failed, and the hook holds
\* a non-empty label list that initializeLabels returned; on a first run, only
\* after a fetchLabels call has resolved
C17_FormGated ==
    App = "routes" =>
        /\ \E c \in Calls : /\ kmPc[c] = "done" /\ keyHandled[c]
                            /\ keyPair = kmResult[c] /\ FullPair(keyPair)
        /\ \A c \in Calls : keyHandled[c] => kmPc[c] = "done"
        /\ \E c \in Calls : /\ labPc[c] = "done" /\ hookLabels = labResult[c]
                            /\ Len(hookLabels) > 0
        /\ FirstRun => /\ storedLabels # NoItem
                       /\ \E c \in Calls : /\ labFetched[c]
                                           /\ labPc[c] \in {"returned", "done"}

\* C17 witness: the form is rendered on a first run
C17_Witness == App = "routes" /\ FirstRun

C19_WitnessStore ==
    \E c \in Calls : /\ kmPc[c] = "failed" /\ ~kmInserted[c] /\ keyHandled[c]
                     /\ keyError /\ keyPair = NoPair

\* C20: for every label with required = true whose value is undefined, null or
\* the empty string, whatever the label's type, validateFormData reports an
\* error under the labelId and returns isValid = false
C20_RequiredReported ==
    vResult.called =>
        \A i \in DOMAIN vLabels :
            (/\ vLabels[i].required
             /\ vFormData[vLabels[i].labelId] \in {Undefined, Null, Str(<<>>)})
                => /\ vLabels[i].labelId \in DOMAIN vResult.errors
                   /\ ~vResult.isValid

\* C20 witness: a required enum label holding "" and a required boolean label
\* with no value have been validated
C20_Witness ==
    /\ vResult.called
    /\ \E i, j \in DOMAIN vLabels :
          /\ vLabels[i].required /\ vLabels[i].type = "enum"
          /\ vFormData[vLabels[i].labelId] = Str(<<>>)
          /\ vLabels[j].required /\ vLabels[j].type = "boolean"
          /\ vFormData[vLabels[j].labelId] = Undefined


\* the fields of a validated form whose value is not undefined, null or ""
NonEmptyFields(type) ==
    {i \in DOMAIN vLabels :
        /\ vLabels[i].type = type
        /\ Given(vLabels[i]) \notin {Undefined, Null, Str(<<>>)}}

\* v < n and v > n as JavaScript compares numbers: false both ways for NaN
Below(v, n) == ~v.nan /\ v.n < n
Above(v, n) == ~v.nan /\ v.n > n

InError(label) == label.labelId \in DOMAIN vResult.errors

\* C21: under a number label a non-empty value that is not a number is an
\* error, and a number is an error exactly when min is present and the value is
\* below it or max is present and the value is above it; min and max themselves
\* are accepted
C21_NumberBounds ==
    vResult.called =>
        \A i \in NonEmptyFields("number") :
            LET label == vLabels[i]
                v == Given(label)
            IN  /\ v.t # "number" => InError(label)
                /\ v.t = "number" =>
                      (InError(label) <=>
                          \/ label.constraints.hasMin /\ Below(v, label.constraints.min)
                          \/ label.constraints.hasMax /\ Above(v, label.constraints.max))

\* C21 witness: a number equal to both min and max has been validated and
\* accepted
C21_Witness ==
    /\ vResult.called
    /\ \E i \in NonEmptyFields("number") :
          /\ vLabels[i].constraints.hasMin /\ vLabels[i].constraints.hasMax
          /\ Given(vLabels[i]) = Num(vLabels[i].constraints.min)
          /\ Given(vLabels[i]) = Num(vLabels[i].constraints.max)
          /\ ~InError(vLabels[i])


\* C22: under a text label a non-empty value that is not a string is an error,
\* and a string is an error exactly when maxLength is present and the string is
\* longer; a string of exactly maxLength characters is accepted
C22_TextLength ==
    vResult.called =>
        \A i \in NonEmptyFields("text") :
            LET label == vLabels[i]
                v == Given(label)
            IN  /\ v.t # "string" => InError(label)
                /\ v.t = "string" =>
                      (InError(label) <=>
                          /\ label.constraints.hasMaxLength
                          /\ Len(v.s) > label.constraints.maxLength)

\* C22 witness: of two required text labels with a maxLength, the one holding a
\* longer string is in error and the one holding exactly maxLength characters
\* is not
C22_Witness ==
    /\ vResult.called
    /\ \E i, j \in NonEmptyFields("text") :
          /\ vLabels[i].required /\ vLabels[i].constraints.hasMaxLength
          /\ Given(vLabels[i]).t = "string"
          /\ Len(Given(vLabels[i]).s) > vLabels[i].constraints.maxLength
          /\ InError(vLabels[i])
          /\ vLabels[j].required /\ vLabels[j].constraints.hasMaxLength
          /\ Given(vLabels[j]).t = "string"
          /\ Len(Given(vLabels[j]).s) = vLabels[j].constraints.maxLength
          /\ ~InError(vLabels[j])


\* the labelIds of the labels whose field validateField finds in error
FailingIds ==
    {vLabels[i].labelId : i \in {j \in DOMAIN vLabels :
                                    Truthy(validateField(Given(vLabels[j]), vLabels[j]))}}

\* C23: the keys of errors are exactly the labelIds of the labels whose field is
\* in error, each with that field's non-empty message, and isValid is true if
\* and only if errors is empty
C23_ResultConsistent ==
    vResult.called =>
        /\ DOMAIN vResult.errors = FailingIds
        /\ DOMAIN vResult.errors \subseteq {vLabels[i].labelId : i \in DOMAIN vLabels}
        /\ \A i \in DOMAIN vLabels :
              vLabels[i].labelId \in DOMAIN vResult.errors =>
                  /\ vResult.errors[vLabels[i].labelId].kind \notin {"undefined", ""}
                  /\ vResult.errors[vLabels[i].labelId]
                        = validateField(Given(vLabels[i]), vLabels[i])
        /\ vResult.isValid <=> DOMAIN vResult.errors = {}

\* C23 witness: two fields in error have been reported together
C23_Witness ==
    /\ vResult.called
    /\ Cardinality(DOMAIN vResult.errors) = 2
    /\ ~vResult.isValid

\* C23 witness: a one-label form is valid while the form data holds a value
\* under an id of no label
C23_WitnessForeignKey ==
    /\ vResult.called
    /\ vResult.isValid
    /\ Len(vLabels) = 1
    /\ \E id \in LabelIds : /\ id # vLabels[1].labelId
                            /\ vFormData[id] = Str(<<>>)


\* C24: in every package createEventPackage returned, all annotations carry the
\* same timestamp, which is metadata.createdAt of the package (the instant of
\* the call)
C24_OneTimestamp ==
    \A k \in DOMAIN built :
        built[k].ok =>
            /\ \A i \in DOMAIN built[k].pkg.annotations :
                  built[k].pkg.annotations[i].timestamp = built[k].pkg.metadata.createdAt
            /\ built[k].pkg.metadata.createdAt = ToISOString(built[k].at)

\* C24 witness: a package with three annotations and a media file, built after
\* the clock had moved
C24_Witness ==
    \E k \in DOMAIN built :
        /\ built[k].ok
        /\ Len(built[k].pkg.annotations) = 3
        /\ built[k].pkg.hasMedia
        /\ built[k].at > 0


\* C25: a call that threw returned no package; every package returned by a call
\* that was given a media file has a media record with the file's MIME type,
\* name, size and last-modified instant and with data that decodes to the
\* file's bytes; a call given no file returns a package without media
C25_MediaAllOrNothing ==
    \A k \in DOMAIN built :
        /\ ~built[k].ok => built[k].pkg = NoPackage
        /\ (built[k].ok /\ bFile.present) =>
              /\ built[k].pkg.hasMedia
              /\ built[k].pkg.media.type = bFile.type
              /\ built[k].pkg.media.name = bFile.name
              /\ built[k].pkg.media.size = Len(bFile.bytes)
              /\ built[k].pkg.media.lastModified = bFile.lastModified
              /\ built[k].pkg.media.data.marker = ";base64,"
              /\ Atob(built[k].pkg.media.data.body) = bFile.bytes
        /\ (built[k].ok /\ ~bFile.present) => ~built[k].pkg.hasMedia

\* C25 witness: the same file was not readable in one call, which threw, and
\* was read and embedded in another
C25_Witness ==
    \E j, k \in DOMAIN built :
        /\ ~built[j].ok /\ built[j].error = "Failed to process media file"
        /\ built[k].ok /\ built[k].pkg.hasMedia
        /\ Len(bFile.bytes) = MaxFileLen


\* the entries an archive holds when its media entry is present or not
EntriesWith(mediaPresent) ==
    {AnnotationsEntry}
    \cup (IF exported.options.includeMetadata THEN {MetadataEntry} ELSE {})
    \cup (IF mediaPresent
          THEN {EntryName("media", IF Len(exported.pkg.media.type) > 1
                                   THEN exported.pkg.media.type[2] ELSE "bin")}
          ELSE {})
    \cup (IF mediaPresent /\ exported.options.includeMetadata
          THEN {EntryName("media_metadata", "json")} ELSE {})

\* C26 as claimed: the archive holds annotations.json, metadata.json iff
\* includeMetadata, the media entry iff includeMedia and the package has media,
\* media_metadata.json iff the media entry is there and includeMetadata, and
\* nothing else
C26_EntriesAsClaimed ==
    (exported.called /\ exported.ok) => exported.archive.names = EntriesWith(MediaAsked)

\* C26 (amended): as claimed, except that the media entry is there iff
\* includeMedia, the package has media and the media data can be decoded; its
\* extension is the part of the type after the first "/", "bin" without one
C26_Entries ==
    (exported.called /\ exported.ok) =>
        exported.archive.names
            = EntriesWith(MediaAsked /\ ~Undecodable(exported.pkg.media.data))

\* C26 witness: an archive with all four entries
C26_Witness ==
    /\ exported.called /\ exported.ok
    /\ MediaAsked /\ exported.options.includeMetadata
    /\ Cardinality(exported.archive.names) = 4
    /\ EntryName("media", "png") \in exported.archive.names

\* C26 witness: metadata was asked for and the media, asked for too, could not
\* be decoded
C26_WitnessUndecodable ==
    /\ exported.called /\ exported.ok
    /\ MediaAsked /\ exported.options.includeMetadata
    /\ exported.archive.names = {AnnotationsEntry, MetadataEntry}


\* the digest of counter value n has the zeros the challenge asks for
Satisfies(n) == \A i \in 1..challenge.difficulty : hashTable[n][i] = "0"

\* C27: solvePow returns only a nonce that satisfies the challenge; and, with
\* the flow's steps scheduled fairly, a flow that is Solving a challenge some
\* nonce satisfies reaches a terminal status
C27_AdmissionLive ==
    /\ [](powPc = "returned" => Satisfies(powResult))
    /\ (powStatus = "Solving" /\ \E n \in 0..MaxNonce : Satisfies(n))
          ~> (powStatus \in {"Completed successfully", "Failed", "Error"})

\* C27 witness: a flow has reached a terminal status after a search that went
\* through every counter value of the model and found the last one
C27_Witness ==
    /\ powStatus \in {"Completed successfully", "Failed"}
    /\ powResult = MaxNonce
    /\ challenge.difficulty = MaxDifficulty


\* C28: every KeyManagement call that returned, returned the pair stored under
\* kid 1; a call whose insert was turned down did not return the pair it had
\* generated; and all calls that returned, returned the same pair
C28_ReturnsPersisted ==
    \A c \in Calls :
        kmPc[c] = "done" =>
            /\ Row(kmResult[c]) \in FindOne(Kid)
            /\ (kmLocal[c] # NoPair /\ ~kmInserted[c]) => kmResult[c] # kmLocal[c]
            /\ \A d \in Calls : kmPc[d] = "done" => kmResult[d] = kmResult[c]

\* C28 witness: on a first run two calls both generated a pair; the one whose
\* insert was turned down has returned, with the other one's pair
C28_Witness ==
    \E c, d \in Calls :
        /\ c # d
        /\ initialKeys = {}
        /\ kmPc[c] = "done" /\ kmLocal[c] # NoPair /\ ~kmInserted[c]
        /\ kmLocal[d] # NoPair /\ kmInserted[d]
        /\ kmResult[c] = kmLocal[d]


\* how many of the formulas of a set hold
HowMany(flags) == Cardinality({i \in DOMAIN flags : flags[i]})

\* C29 as claimed: keyPair and error are never both set
C29_NeverBoth == ~(keyPair # NoPair /\ keyError)

\* C29 (amended): exactly one of isLoading, isInitialized and the error state
\* holds in every state; keyPair and error are both set only when one run of
\* initializeKeys got a pair and another one failed, and then the error state
\* holds and App shows the error
C29_ExactlyOne ==
    /\ HowMany(<<isLoading, isInitialized, keyError>>) = 1
    /\ (keyPair # NoPair /\ keyError) =>
          /\ \E c, d \in Calls : /\ kmPc[c] = "done" /\ keyHandled[c]
                                 /\ kmPc[d] = "failed" /\ keyHandled[d]
          /\ App = "error"
    /\ isInitialized => App \in {"loading", "routes"}

\* C29 witness: one run has set keyPair and the other has set error
C29_Witness ==
    /\ keyPair # NoPair
    /\ keyError
    /\ \A c \in AppCalls : keyHandled[c]


\* the archive holds a media entry
HasMediaEntry == \E n \in exported.archive.names : n[1] = "media"

\* C30 as claimed: in an archive with metadata.json, hasMedia is true if and
\* only if the archive holds a media entry
C30_FlagAgrees ==
    (exported.called /\ exported.ok /\ MetadataEntry \in exported.archive.names) =>
        (exported.archive.metadata.hasMedia <=> HasMediaEntry)

\* C30 (amended): in an archive with metadata.json, hasMedia is true if and only
\* if the exported package has media; an archive with a media entry has
\* hasMedia true, and hasMedia agrees with the presence of the media entry when
\* includeMedia is true and the media data can be decoded
C30_FlagIsPackage ==
    (exported.called /\ exported.ok /\ MetadataEntry \in exported.archive.names) =>
        /\ exported.archive.metadata.hasMedia <=> exported.pkg.hasMedia
        /\ HasMediaEntry => exported.archive.metadata.hasMedia
        /\ (exported.options.includeMedia /\ ~Undecodable(exported.pkg.media.data)) =>
              (exported.archive.metadata.hasMedia <=> HasMediaEntry)

\* C30 witness: a package with media exported with metadata and without media
C30_Witness ==
    /\ exported.called /\ exported.ok
    /\ exported.options.includeMetadata /\ ~exported.options.includeMedia
    /\ exported.pkg.hasMedia
    /\ exported.archive.metadata.hasMedia
    /\ ~HasMediaEntry

\* C30 witness: a package with media exported with metadata and media
C30_WitnessAgrees ==
    /\ exported.called /\ exported.ok
    /\ exported.options.includeMetadata /\ exported.options.includeMedia
    /\ exported.archive.metadata.hasMedia
    /\ HasMediaEntry

=============================================================================
